---- MODULE Spec2Model ----
(***************************************************************************)
(* Model of the hospital dashboard.                                        *)
(*   src/app.py   Pricing page: scan of the combined price table           *)
(*   src/app2.py  Pricing page: per-category price statistics              *)
(*   src/app.py   Pricing page: scan for one selected category             *)
(*   src/app2.py  Pricing page: load_pricing_csvs() and the tabs           *)
(*   both         load_data(), the check of its result, the page rendered  *)
(*   both         clinician-service mapping: tokens, counts, coverage      *)
(*   both         Analytics page: categorize_specialization, rollup        *)
(* A text is a sequence of one-character strings.  A DataFrame cell is a   *)
(* record [isna, text]: pandas reads an empty CSV field as NaN, every      *)
(* other field as its text.                                                *)
(***************************************************************************)
EXTENDS Integers, Sequences, FiniteSets, TLC

VARIABLES
    pc,                 \* position of the running page script
    prices_df,          \* app.py: the combined price table (rows of 3 cells)
    search_price,       \* app.py: text of the "Search Service" input
    idx,                \* app.py: index of the row the scan is at
    current_category,   \* app.py: category of the scan, None at first
    page,               \* app.py: what the scan has written to the page
    df,                 \* app2.py: price table of the tab's category
    total_services,     \* app2.py: "Total Services" metric
    avg_canary,         \* app2.py: "Avg Price (Canary Wharf)" metric
    avg_orp,            \* app2.py: "Avg Price (Orpington)" metric
    price_range,        \* app2.py: "Price Range" metric
    insights,           \* app2.py: "Price Insights" block
    price,              \* app2.py: the cell of one iteration of a price loop
    price_str,          \* app2.py: its cleaned text
    canary_prices,      \* app2.py: the amounts the loop has collected
    mapping_df,         \* the 'Services Offered' text of every clinician
    total_clinicians,   \* len(clinicians_df)
    mapped_df,          \* app2.py: the mapping rows other than 'No Match'
    service_list,       \* the service tokens of all clinicians
    service_counts,     \* occurrences of each token of service_list
    service_coverage,   \* 'Coverage %' of each token of service_counts
    doctor_counts,      \* Services page: number of clinicians per service
    specialization,     \* Analytics page: the text being categorized
    department,         \* Analytics page: its department
    disk,               \* the four CSV files of load_data()
    read,               \* load_data(): the files read so far
    bound,              \* binding of the four module-level tables
    clinicians_df,      \* the clinician roster
    services_df,        \* the service catalog
    shown,              \* errors written to the page
    selected_page,      \* the page chosen in the sidebar
    view,               \* the page that was rendered
    dept_counts,        \* Analytics page: clinicians of each department
    dept_summary,       \* Analytics page: percentage of each department
    csv_files,          \* app2.py: the per-category price files on disk
    csv_idx,            \* app2.py: position of load_pricing_csvs in csv_files
    pricing_data,       \* app2.py: the price table of each loaded category
    attempts,           \* app2.py: the encodings tried for each file
    tab_views,          \* app2.py: the category shown in each tab
    selected_category,  \* app.py: the value chosen in the category list
    in_category,        \* app.py: single-category scan, inside the category
    services_found      \* app.py: single-category scan, a service was shown

vars == <<pc, prices_df, search_price, idx, current_category, page, df,
          total_services, avg_canary, avg_orp, price_range, insights,
          price, price_str, canary_prices, mapping_df, total_clinicians,
          mapped_df, service_list, service_counts, service_coverage,
          doctor_counts, specialization, department,
          disk, read, bound, clinicians_df, services_df, shown, selected_page, view, dept_counts, dept_summary,
          csv_files, csv_idx, pricing_data, attempts, tab_views,
          selected_category, in_category, services_found>>

scanVars == <<prices_df, search_price, idx, current_category, page>>
statVars == <<df, total_services, avg_canary, avg_orp, price_range, insights>>
loopVars == <<price, price_str, canary_prices>>
mapVars == <<mapping_df, total_clinicians, mapped_df, service_list,
             service_counts, service_coverage, doctor_counts>>
deptVars == <<specialization, department>>
loadVars == <<disk, read, bound, clinicians_df, services_df, shown, selected_page, view, dept_counts, dept_summary>>
csvVars == <<csv_files, csv_idx, pricing_data, attempts, tab_views>>
singleVars == <<selected_category, in_category, services_found>>

----------------------------------------------------------------------------
(* Bounds *)

MaxRows == 3        \* rows of the combined price table
MaxStatRows == 2    \* rows of a per-category price table
MaxCellLen == 4     \* characters of a generated price cell

----------------------------------------------------------------------------
(* Cells and texts *)

NaN == [isna |-> TRUE, text |-> <<>>]
None == [isna |-> TRUE, text |-> <<>>]
Cell(s) == [isna |-> FALSE, text |-> s]

Digits == {"0", "1", "2", "3", "4", "5", "6", "7", "8", "9"}

DigitVal(c) ==
    CASE c = "0" -> 0 [] c = "1" -> 1 [] c = "2" -> 2 [] c = "3" -> 3
      [] c = "4" -> 4 [] c = "5" -> 5 [] c = "6" -> 6 [] c = "7" -> 7
      [] c = "8" -> 8 [] c = "9" -> 9

\* str.lower() on one character of the model's alphabet
LowerChar(c) ==
    CASE c = "A" -> "a" [] c = "B" -> "b" [] c = "C" -> "c" [] c = "D" -> "d"
      [] c = "E" -> "e" [] c = "F" -> "f" [] c = "G" -> "g" [] c = "H" -> "h"
      [] c = "I" -> "i" [] c = "J" -> "j" [] c = "K" -> "k" [] c = "L" -> "l"
      [] c = "M" -> "m" [] c = "N" -> "n" [] c = "O" -> "o" [] c = "P" -> "p"
      [] c = "Q" -> "q" [] c = "R" -> "r" [] c = "S" -> "s" [] c = "T" -> "t"
      [] c = "U" -> "u" [] c = "V" -> "v" [] c = "W" -> "w" [] c = "X" -> "x"
      [] c = "Y" -> "y" [] c = "Z" -> "z"
      [] OTHER -> c

\* str.lower()
Lower(s) == [i \in 1..Len(s) |-> LowerChar(s[i])]

\* str.replace(ch, '')
Remove(s, ch) == SelectSeq(s, LAMBDA c : c # ch)

RECURSIVE LStrip(_)
LStrip(s) == IF s # <<>> /\ Head(s) = " " THEN LStrip(Tail(s)) ELSE s

RECURSIVE RStrip(_)
RStrip(s) ==
    IF s # <<>> /\ s[Len(s)] = " " THEN RStrip(SubSeq(s, 1, Len(s) - 1)) ELSE s

\* str.strip()
Strip(s) == RStrip(LStrip(s))

\* sub in s
Contains(s, sub) ==
    \E i \in 1..(Len(s) + 1) :
        /\ i + Len(sub) - 1 <= Len(s)
        /\ SubSeq(s, i, i + Len(sub) - 1) = sub

\* str.isdigit()
IsDigit(s) == s # <<>> /\ \A i \in 1..Len(s) : s[i] \in Digits

\* str(cell): the text of a cell, "nan" for a missing value
Str(c) == IF c.isna THEN <<"n", "a", "n">> ELSE c.text

----------------------------------------------------------------------------
(* app.py, Pricing page, selected_category = 'All': the scan of prices_df *)

\* Mutant: the blank test without the strip() clause
IsBlankName_NaOnly(c) == c.isna

\* pd.isna(service_name) or service_name.strip() == ''
IsBlankName(c) == c.isna \/ Strip(c.text) = <<>>

\* Mutant: a header as soon as one price cell is missing
IsHeaderRow_Either(row) == row[2].isna \/ row[3].isna

\* pd.isna(row.iloc[1]) and pd.isna(row.iloc[2])
IsHeaderRow(row) == row[2].isna /\ row[3].isna

\* Mutant: the search test without lower()
SearchHides_CaseSensitive(term, name) ==
    term # <<>> /\ ~Contains(Str(name), term)

\* search_price and search_price.lower() not in str(service_name).lower()
SearchHides(term, name) ==
    term # <<>> /\ ~Contains(Lower(Str(name)), Lower(term))

\* row.iloc[k] if pd.notna(row.iloc[k]) else 'N/A'
ShownPrice(c) == IF c.isna THEN <<"N", "/", "A">> ELSE c.text

Scanning == pc = "scan" /\ idx <= Len(prices_df)

ScanSkipBlank ==
    /\ Scanning
    /\ IsBlankName(prices_df[idx][1])
    /\ idx' = idx + 1
    /\ UNCHANGED <<pc, prices_df, search_price, current_category, page>>
    /\ UNCHANGED <<statVars, loopVars, mapVars, deptVars, loadVars, csvVars, singleVars>>

\* Mutant: the header step keeps the first category it met
ScanHeader_KeepFirst ==
    /\ Scanning
    /\ ~IsBlankName(prices_df[idx][1])
    /\ IsHeaderRow(prices_df[idx])
    /\ current_category' =
           IF current_category = None THEN prices_df[idx][1] ELSE current_category
    /\ page' = Append(page, [kind |-> "header", row |-> idx,
                             text |-> prices_df[idx][1].text])
    /\ idx' = idx + 1
    /\ UNCHANGED <<pc, prices_df, search_price>>
    /\ UNCHANGED <<statVars, loopVars, mapVars, deptVars, loadVars, csvVars, singleVars>>

ScanHeader ==
    /\ Scanning
    /\ ~IsBlankName(prices_df[idx][1])
    /\ IsHeaderRow(prices_df[idx])
    /\ current_category' = prices_df[idx][1]
    /\ page' = Append(page, [kind |-> "header", row |-> idx,
                             text |-> prices_df[idx][1].text])
    /\ idx' = idx + 1
    /\ UNCHANGED <<pc, prices_df, search_price>>
    /\ UNCHANGED <<statVars, loopVars, mapVars, deptVars, loadVars, csvVars, singleVars>>

ScanSearchSkip ==
    /\ Scanning
    /\ ~IsBlankName(prices_df[idx][1])
    /\ ~IsHeaderRow(prices_df[idx])
    /\ SearchHides(search_price, prices_df[idx][1])
    /\ idx' = idx + 1
    /\ UNCHANGED <<pc, prices_df, search_price, current_category, page>>
    /\ UNCHANGED <<statVars, loopVars, mapVars, deptVars, loadVars, csvVars, singleVars>>

ScanDisplay ==
    /\ Scanning
    /\ ~IsBlankName(prices_df[idx][1])
    /\ ~IsHeaderRow(prices_df[idx])
    /\ ~SearchHides(search_price, prices_df[idx][1])
    /\ page' = Append(page, [kind |-> "service", row |-> idx,
                             category |-> current_category,
                             service |-> prices_df[idx][1].text,
                             canary |-> ShownPrice(prices_df[idx][2]),
                             orpington |-> ShownPrice(prices_df[idx][3])])
    /\ idx' = idx + 1
    /\ UNCHANGED <<pc, prices_df, search_price, current_category>>
    /\ UNCHANGED <<statVars, loopVars, mapVars, deptVars, loadVars, csvVars, singleVars>>

ScanEnd ==
    /\ pc = "scan"
    /\ idx > Len(prices_df)
    /\ pc' = "done"
    /\ UNCHANGED <<scanVars, statVars, loopVars, mapVars, deptVars, loadVars, csvVars, singleVars>>

\* Cells of the first column of the combined table
NameCells ==
    { NaN,
      Cell(<<" ">>),
      Cell(<<"M", "R", "I">>),
      Cell(<<"H", "e", "a", "d", " ", "M", "R", "I">>) }

\* Cells of the two price columns of the combined table
CanaryCells == { NaN, Cell(<<"£", "5", "0", "0">>) }
OrpingtonCells == { NaN, Cell(<<"F", "r", "o", "m", " ", "£", "4", "5", "0">>) }

SearchTerms == { <<>>, <<"h", "e", "a", "d">> }

PriceRows == { <<n, c, o>> : n \in NameCells, c \in CanaryCells, o \in OrpingtonCells }

Tables(Rows, max) == UNION { [1..n -> Rows] : n \in 0..max }

----------------------------------------------------------------------------
(* app2.py, Pricing page: numbers.  A float is modelled as the exact      *)
(* decimal m * 10^(-e), normalised so that equal numbers are equal records *)
(* (binary rounding of float is not modelled).  kind "ValueError" is the   *)
(* exception float() raises, kind "none" the absence of an amount.         *)

RECURSIVE Pow10(_)
Pow10(n) == IF n = 0 THEN 1 ELSE 10 * Pow10(n - 1)

RECURSIVE Norm(_, _)
Norm(m, e) ==
    IF e > 0 /\ m % 10 = 0 THEN Norm(m \div 10, e - 1)
    ELSE [kind |-> "num", m |-> m, e |-> e]

ValueError == [kind |-> "ValueError", m |-> 0, e |-> 0]
NoAmount == [kind |-> "none", m |-> 0, e |-> 0]

MaxOf2(a, b) == IF a >= b THEN a ELSE b

\* the integer a * 10^k, k the larger exponent of a and b
Scaled(a, b) == a.m * Pow10(MaxOf2(a.e, b.e) - a.e)

DecAdd(a, b) == Norm(Scaled(a, b) + Scaled(b, a), MaxOf2(a.e, b.e))
DecSub(a, b) == Norm(Scaled(a, b) - Scaled(b, a), MaxOf2(a.e, b.e))
DecLess(a, b) == Scaled(a, b) < Scaled(b, a)

RECURSIVE IntOf(_)
IntOf(s) ==
    IF s = <<>> THEN 0
    ELSE IntOf(SubSeq(s, 1, Len(s) - 1)) * 10 + DigitVal(s[Len(s)])

Dots(s) == Len(SelectSeq(s, LAMBDA c : c = "."))

\* digits after the decimal point of a text with one point, 0 without
Decimals(s) ==
    IF Dots(s) = 0 THEN 0
    ELSE Len(s) - (CHOOSE i \in 1..Len(s) : s[i] = ".")

\* float(price_str), for a text of digits and points: the literal is a
\* number with at most one point, anything else raises ValueError
Float(s) ==
    IF Dots(s) > 1 \/ ~IsDigit(Remove(s, ".")) THEN ValueError
    ELSE Norm(IntOf(Remove(s, ".")), Decimals(s))

DigitChar(k) ==
    CASE k = 0 -> "0" [] k = 1 -> "1" [] k = 2 -> "2" [] k = 3 -> "3"
      [] k = 4 -> "4" [] k = 5 -> "5" [] k = 6 -> "6" [] k = 7 -> "7"
      [] k = 8 -> "8" [] k = 9 -> "9"

\* the decimal digits of n >= 0
RECURSIVE DigitsOf(_)
DigitsOf(n) ==
    IF n < 10 THEN << DigitChar(n) >>
    ELSE Append(DigitsOf(n \div 10), DigitChar(n % 10))

Zeros(n) == [i \in 1..n |-> "0"]

\* digits of n without its trailing zeros (n > 0)
RECURSIVE Significand(_)
Significand(n) == IF n % 10 = 0 THEN Significand(n \div 10) ELSE DigitsOf(n)

\* str(price) of a float cell, a >= 0: repr(float).  Fixed notation
\* ("500.0", "4.5", "0.0001") while the decimal exponent x of the first
\* digit satisfies -4 <= x < 16, scientific notation ("1e-05") outside.
FloatStr(a) ==
    LET ds == DigitsOf(a.m)
        d == Len(ds)
        x == d - 1 - a.e
        sg == Significand(a.m)
        xs == DigitsOf(IF x < 0 THEN 0 - x ELSE x)
    IN  IF a.m = 0 THEN <<"0", ".", "0">>
        ELSE IF x < -4 \/ x >= 16
             THEN (IF Len(sg) = 1 THEN sg
                   ELSE << sg[1], "." >> \o SubSeq(sg, 2, Len(sg)))
                  \o << "e", (IF x < 0 THEN "-" ELSE "+") >>
                  \o (IF Len(xs) = 1 THEN <<"0">> \o xs ELSE xs)
        ELSE IF a.e = 0 THEN ds \o <<".", "0">>
        ELSE IF d > a.e
             THEN SubSeq(ds, 1, d - a.e) \o <<".">> \o SubSeq(ds, d - a.e + 1, d)
        ELSE <<"0", ".">> \o Zeros(a.e - d) \o ds

\* round(n / d, 0) for d > 0, ties to even
RoundHalfEven(n, d) ==
    LET q == n \div d
        r == n - q * d
    IN  IF 2 * r < d THEN q
        ELSE IF 2 * r > d THEN q + 1
        ELSE IF q % 2 = 0 THEN q ELSE q + 1

\* sum(prices), from 0
RECURSIVE SumOf(_)
SumOf(prices) ==
    IF prices = <<>> THEN Norm(0, 0)
    ELSE DecAdd(Head(prices), SumOf(Tail(prices)))

RangeOf(prices) == { prices[i] : i \in 1..Len(prices) }

\* min(all_prices), max(all_prices)
MinOf(prices) == CHOOSE p \in RangeOf(prices) : \A q \in RangeOf(prices) : ~DecLess(q, p)
MaxOf(prices) == CHOOSE p \in RangeOf(prices) : \A q \in RangeOf(prices) : ~DecLess(p, q)

----------------------------------------------------------------------------
(* app2.py, Pricing page: the price-cell test every statistic repeats *)

\* Mutant: the currency symbol is left in the text
CleanPrice_KeepPound(c) == Strip(Remove(Str(c), ","))

\* str(price).replace('£', '').replace(',', '').strip()
CleanPrice(c) == Strip(Remove(Remove(Str(c), "£"), ","))

\* Mutant: the test without replace('.', '')
IsNumericPrice_NoPoint(s) ==
    s # <<>> /\ ~Contains(s, <<"F", "r", "o", "m">>) /\ IsDigit(s)

\* Mutant: the test without its isdigit() clause
IsNumericPrice_NoDigitTest(s) == s # <<>> /\ ~Contains(s, <<"F", "r", "o", "m">>)

\* price_str and price_str != '' and 'From' not in price_str
\*   and price_str.replace('.', '').isdigit()
IsNumericPrice(s) ==
    /\ s # <<>>
    /\ ~Contains(s, <<"F", "r", "o", "m">>)
    /\ IsDigit(Remove(s, "."))

\* What the test makes of a cell: an amount is taken from it (Exact), it is
\* left out because it holds 'From' (From), or left out otherwise.
PriceValue(c) ==
    LET s == CleanPrice(c)
    IN  IF IsNumericPrice(s) THEN [qualifier |-> "Exact", amount |-> Float(s)]
        ELSE IF Contains(s, <<"F", "r", "o", "m">>)
             THEN [qualifier |-> "From", amount |-> NoAmount]
        ELSE [qualifier |-> "Unavailable", amount |-> NoAmount]

\* for price in <column>: ... <list>.append(float(price_str))
\* raised: float() raised, which leaves the loop and the enclosing try
RECURSIVE CollectPrices(_, _)
CollectPrices(cells, acc) ==
    IF cells = <<>> THEN [raised |-> FALSE, prices |-> acc]
    ELSE LET s == CleanPrice(Head(cells))
         IN  IF ~IsNumericPrice(s) THEN CollectPrices(Tail(cells), acc)
             ELSE IF Float(s).kind = "ValueError"
                  THEN [raised |-> TRUE, prices |-> acc]
             ELSE CollectPrices(Tail(cells), Append(acc, Float(s)))

\* df['Canary Wharf'] (k = 2), df['Orpington'] (k = 3)
Column(t, k) == [i \in 1..Len(t) |-> t[i][k]]

NoMetric == [shown |-> "unset", raised |-> FALSE, sum |-> NoAmount, n |-> 0,
             lo |-> NoAmount, hi |-> NoAmount]

\* The average metric of one column: the mean sum / n, or "Varies" when no
\* amount was collected or the block's except clause ran.  (The metric
\* prints the mean with no decimals; the model keeps the mean.)
AvgMetric(cells) ==
    LET r == CollectPrices(cells, <<>>)
    IN  IF r.raised THEN [NoMetric EXCEPT !.shown = "Varies", !.raised = TRUE]
        ELSE IF r.prices = <<>> THEN [NoMetric EXCEPT !.shown = "Varies"]
        ELSE [NoMetric EXCEPT !.shown = "value", !.sum = SumOf(r.prices),
                              !.n = Len(r.prices)]

\* The price range metric over both columns
RangeMetric(t) ==
    LET r == CollectPrices(Column(t, 2) \o Column(t, 3), <<>>)
    IN  IF r.raised THEN [NoMetric EXCEPT !.shown = "Varies", !.raised = TRUE]
        ELSE IF r.prices = <<>> THEN [NoMetric EXCEPT !.shown = "Varies"]
        ELSE [NoMetric EXCEPT !.shown = "value", !.lo = MinOf(r.prices),
                              !.hi = MaxOf(r.prices)]

\* 'Difference (%)': round(diff / orp_price * 100, 1) if orp_price > 0 else 0
DiffPct(diff, orp_price) ==
    IF orp_price.m > 0
    THEN Norm(RoundHalfEven(Scaled(diff, orp_price) * 1000,
                            Scaled(orp_price, diff)), 1)
    ELSE Norm(0, 0)

\* one entry of price_diff_data
DiffRow(i, row) ==
    LET canary_price == Float(CleanPrice(row[2]))
        orp_price == Float(CleanPrice(row[3]))
        diff == DecSub(canary_price, orp_price)
    IN  [row |-> i, Service |-> row[1].text, Canary |-> canary_price,
         Orpington |-> orp_price, Difference |-> diff,
         DifferencePct |-> DiffPct(diff, orp_price)]

\* for idx_row, row in df.iterrows(): ... price_diff_data.append({...})
RECURSIVE PriceDiffData(_, _, _)
PriceDiffData(t, i, acc) ==
    IF i > Len(t) THEN [raised |-> FALSE, rows |-> acc]
    ELSE IF ~(IsNumericPrice(CleanPrice(t[i][2])) /\ IsNumericPrice(CleanPrice(t[i][3])))
         THEN PriceDiffData(t, i + 1, acc)
    ELSE IF Float(CleanPrice(t[i][2])).kind = "ValueError"
            \/ Float(CleanPrice(t[i][3])).kind = "ValueError"
         THEN [raised |-> TRUE, rows |-> acc]
    ELSE PriceDiffData(t, i + 1, Append(acc, DiffRow(i, t[i])))

\* nlargest(5, ...)
TopN == 5

\* s without its i-th element
DropAt(s, i) == SubSeq(s, 1, i - 1) \o SubSeq(s, i + 1, Len(s))

\* diff_df.nlargest(n, f): the n rows with the greatest value in column f,
\* greatest first, equal values in their order of appearance
RECURSIVE NLargest(_, _, _)
NLargest(rows, n, f) ==
    IF n = 0 \/ rows = <<>> THEN <<>>
    ELSE LET i == CHOOSE i \in 1..Len(rows) :
                      /\ \A j \in 1..Len(rows) : ~DecLess(rows[i][f], rows[j][f])
                      /\ \A j \in 1..(i - 1) : DecLess(rows[j][f], rows[i][f])
         IN  << rows[i] >> \o NLargest(DropAt(rows, i), n - 1, f)

NoInsights == [shown |-> "unset", raised |-> FALSE, price_diff_data |-> <<>>,
               top_expensive |-> <<>>, top_diff |-> <<>>]

\* The "Price Insights" block: the difference table with its two top-5
\* lists, or an info line when there is no difference row or the block's
\* except clause ran
Insights(t) ==
    LET r == PriceDiffData(t, 1, <<>>)
    IN  IF r.raised THEN [NoInsights EXCEPT !.shown = "info", !.raised = TRUE]
        ELSE IF r.rows = <<>> THEN [NoInsights EXCEPT !.shown = "info"]
        ELSE [NoInsights EXCEPT !.shown = "table", !.price_diff_data = r.rows,
                                !.top_expensive = NLargest(r.rows, TopN, "Canary"),
                                !.top_diff = NLargest(r.rows, TopN, "Difference")]

----------------------------------------------------------------------------
(* Idle values of the parts a specification does not run *)

StatIdle ==
    /\ df = <<>>
    /\ total_services = 0
    /\ avg_canary = NoMetric
    /\ avg_orp = NoMetric
    /\ price_range = NoMetric
    /\ insights = NoInsights

LoopIdle ==
    /\ price = NaN
    /\ price_str = <<>>
    /\ canary_prices = <<>>

ScanIdle ==
    /\ prices_df = <<>>
    /\ search_price = <<>>
    /\ idx = 1
    /\ current_category = None
    /\ page = <<>>

MapIdle ==
    /\ mapping_df = <<>>
    /\ total_clinicians = 0
    /\ mapped_df = <<>>
    /\ service_list = <<>>
    /\ service_counts = <<>>
    /\ service_coverage = <<>>
    /\ doctor_counts = <<>>

DeptIdle ==
    /\ specialization = <<>>
    /\ department = <<>>

LoadIdle ==
    /\ disk = <<>>
    /\ read = <<>>
    /\ bound = <<>>
    /\ clinicians_df = <<>>
    /\ services_df = <<>>
    /\ shown = <<>>
    /\ selected_page = ""
    /\ view = ""
    /\ dept_counts = <<>>
    /\ dept_summary = <<>>

CsvIdle ==
    /\ csv_files = <<>>
    /\ csv_idx = 1
    /\ pricing_data = <<>>
    /\ attempts = <<>>
    /\ tab_views = <<>>

SingleIdle ==
    /\ selected_category = <<>>
    /\ in_category = FALSE
    /\ services_found = FALSE

----------------------------------------------------------------------------
(* app2.py, Pricing page: one tab, block after block *)

\* df = df.dropna(subset=['Service']); st.metric("Total Services", len(df))
TabDropNa ==
    /\ pc = "tab"
    /\ df' = SelectSeq(df, LAMBDA row : ~row[1].isna)
    /\ total_services' = Len(df')
    /\ pc' = "avg_canary"
    /\ UNCHANGED <<avg_canary, avg_orp, price_range, insights>>
    /\ UNCHANGED <<scanVars, loopVars, mapVars, deptVars, loadVars, csvVars, singleVars>>

TabAvgCanary ==
    /\ pc = "avg_canary"
    /\ avg_canary' = AvgMetric(Column(df, 2))
    /\ pc' = "avg_orp"
    /\ UNCHANGED <<df, total_services, avg_orp, price_range, insights>>
    /\ UNCHANGED <<scanVars, loopVars, mapVars, deptVars, loadVars, csvVars, singleVars>>

TabAvgOrp ==
    /\ pc = "avg_orp"
    /\ avg_orp' = AvgMetric(Column(df, 3))
    /\ pc' = "price_range"
    /\ UNCHANGED <<df, total_services, avg_canary, price_range, insights>>
    /\ UNCHANGED <<scanVars, loopVars, mapVars, deptVars, loadVars, csvVars, singleVars>>

TabPriceRange ==
    /\ pc = "price_range"
    /\ price_range' = RangeMetric(df)
    /\ pc' = "insights"
    /\ UNCHANGED <<df, total_services, avg_canary, avg_orp, insights>>
    /\ UNCHANGED <<scanVars, loopVars, mapVars, deptVars, loadVars, csvVars, singleVars>>

TabInsights ==
    /\ pc = "insights"
    /\ insights' = Insights(df)
    /\ pc' = "tab_done"
    /\ UNCHANGED <<df, total_services, avg_canary, avg_orp, price_range>>
    /\ UNCHANGED <<scanVars, loopVars, mapVars, deptVars, loadVars, csvVars, singleVars>>

\* Cells of a per-category price table
ServiceCells == { NaN, Cell(<<"H", "e", "a", "d", " ", "M", "R", "I">>) }

StatCells ==
    { NaN,
      Cell(<<"£", "5", "0", "0">>),
      Cell(<<"4", "5", "0">>),
      Cell(<<"F", "r", "o", "m", " ", "£", "4", "5", "0">>),
      Cell(<<"1", ".", "2", ".", "3">>) }

StatRows == { <<n, c, o>> : n \in ServiceCells, c \in StatCells, o \in StatCells }

InitStats ==
    /\ pc = "tab"
    /\ df \in Tables(StatRows, MaxStatRows)
    /\ total_services = 0
    /\ avg_canary = NoMetric
    /\ avg_orp = NoMetric
    /\ price_range = NoMetric
    /\ insights = NoInsights
    /\ ScanIdle
    /\ LoopIdle
    /\ MapIdle
    /\ DeptIdle
    /\ LoadIdle
    /\ CsvIdle
    /\ SingleIdle

NextStats ==
    \/ TabDropNa
    \/ TabAvgCanary
    \/ TabAvgOrp
    \/ TabPriceRange
    \/ TabInsights

SpecStats == InitStats /\ [][NextStats]_vars

----------------------------------------------------------------------------
(* app2.py, Pricing page: one iteration of the Canary Wharf price loop *)

LoopClean ==
    /\ pc = "loop_clean"
    /\ price_str' = CleanPrice(price)
    /\ pc' = "loop_test"
    /\ UNCHANGED <<price, canary_prices>>
    /\ UNCHANGED <<scanVars, statVars, mapVars, deptVars, loadVars, csvVars, singleVars>>

LoopSkip ==
    /\ pc = "loop_test"
    /\ ~IsNumericPrice(price_str)
    /\ pc' = "loop_skipped"
    /\ UNCHANGED <<loopVars, scanVars, statVars, mapVars, deptVars, loadVars, csvVars, singleVars>>

LoopAppend ==
    /\ pc = "loop_test"
    /\ IsNumericPrice(price_str)
    /\ Float(price_str).kind = "num"
    /\ canary_prices' = Append(canary_prices, Float(price_str))
    /\ pc' = "loop_appended"
    /\ UNCHANGED <<price, price_str>>
    /\ UNCHANGED <<scanVars, statVars, mapVars, deptVars, loadVars, csvVars, singleVars>>

LoopRaise ==
    /\ pc = "loop_test"
    /\ IsNumericPrice(price_str)
    /\ Float(price_str).kind = "ValueError"
    /\ pc' = "loop_raised"
    /\ UNCHANGED <<loopVars, scanVars, statVars, mapVars, deptVars, loadVars, csvVars, singleVars>>

\* Characters of the generated price cells
ParseChars == { "£", ",", ".", " ", "1", "5" }

Texts(Chars, max) == UNION { [1..n -> Chars] : n \in 1..max }

\* Price cells that open with the word "From"
FromCells ==
    { Cell(<<"F", "r", "o", "m", " ", "£", "4", "5", "0">>),
      Cell(<<"f", "r", "o", "m", " ", "£", "4", "5", "0">>),
      Cell(<<"F", "R", "O", "M", " ", "4", "5", "0">>),
      Cell(<<"£", "F", "r", "o", "m", "4", "5">>),
      Cell(<<"F", "r", "o", "m">>) }

ParseCells == { NaN } \cup { Cell(s) : s \in Texts(ParseChars, MaxCellLen) } \cup FromCells

InitParse ==
    /\ pc = "loop_clean"
    /\ price \in ParseCells
    /\ price_str = <<>>
    /\ canary_prices = <<>>
    /\ ScanIdle
    /\ StatIdle
    /\ MapIdle
    /\ DeptIdle
    /\ LoadIdle
    /\ CsvIdle
    /\ SingleIdle

NextParse ==
    \/ LoopClean
    \/ LoopSkip
    \/ LoopAppend
    \/ LoopRaise

SpecParse == InitParse /\ [][NextParse]_vars

----------------------------------------------------------------------------
(* app2.py, Pricing page: the price loop over a cell and then over the    *)
(* amount taken from it, as a cell of a numeric column (pandas reads a     *)
(* column of plain numbers as floats, and str(price) writes the float).    *)

LoopWriteBack ==
    /\ pc = "loop_appended"
    /\ Len(canary_prices) = 1
    /\ price' = Cell(FloatStr(canary_prices[1]))
    /\ price_str' = <<>>
    /\ pc' = "loop_clean"
    /\ UNCHANGED canary_prices
    /\ UNCHANGED <<scanVars, statVars, mapVars, deptVars, loadVars, csvVars, singleVars>>

\* Price cells with small and with formatted amounts
SmallCells ==
    { Cell(<<"0">>),
      Cell(<<"0", ".", "5", "0">>),
      Cell(<<"0", ".", "0", "0", "0", "1">>),
      Cell(<<"0", ".", "0", "0", "0", "0", "1">>),
      Cell(<<".", "0", "0", "0", "0", "1", "5">>),
      Cell(<<"£", "1", ",", "5", "0", "0", ".", "5">>) }

InitReparse ==
    /\ pc = "loop_clean"
    /\ price \in ParseCells \cup SmallCells
    /\ price_str = <<>>
    /\ canary_prices = <<>>
    /\ ScanIdle
    /\ StatIdle
    /\ MapIdle
    /\ DeptIdle
    /\ LoadIdle
    /\ CsvIdle
    /\ SingleIdle

NextReparse ==
    \/ LoopClean
    \/ LoopSkip
    \/ LoopAppend
    \/ LoopRaise
    \/ LoopWriteBack

SpecReparse == InitReparse /\ [][NextReparse]_vars

----------------------------------------------------------------------------
(* Clinician-service mapping: service tokens, per-service counts and       *)
(* coverage (app.py and app2.py, Dashboard, Clinicians, Services and       *)
(* Analytics pages).  mapping_df holds the 'Services Offered' text of each *)
(* clinician; a clinician is the index of their row.                       *)

\* The sentinel of an unmapped clinician
NoMatch == <<"N", "o", " ", "M", "a", "t", "c", "h">>

\* services_df['Services'].tolist()
all_services == << <<"M", "R", "I">>, <<"C", "T", " ", "S", "c", "a", "n">>, <<"X", "-", "R", "a", "y">> >>

\* text.split(sep)
RECURSIVE Split(_, _)
Split(s, sep) ==
    IF \A i \in 1..Len(s) : s[i] # sep THEN << s >>
    ELSE LET i == CHOOSE i \in 1..Len(s) :
                      s[i] = sep /\ \A j \in 1..(i - 1) : s[j] # sep
         IN  << SubSeq(s, 1, i - 1) >> \o Split(SubSeq(s, i + 1, Len(s)), sep)

\* [s.strip() for s in row['Services Offered'].split(',')]
services(text) ==
    LET parts == Split(text, ",")
    IN  [i \in 1..Len(parts) |-> Strip(parts[i])]

\* for _, row in rows.iterrows(): service_list.extend(services)
RECURSIVE Extend(_)
Extend(rows) ==
    IF rows = <<>> THEN <<>>
    ELSE services(Head(rows)) \o Extend(Tail(rows))

\* Mutant: value_counts() that counts every token once
ValueCounts_Once(list) ==
    [s \in { list[i] : i \in 1..Len(list) } |-> 1]

\* pd.Series(service_list).value_counts(): the count of every token that
\* occurs (the order of the Series is not modelled)
ValueCounts(list) ==
    [s \in { list[i] : i \in 1..Len(list) } |->
        Cardinality({ i \in 1..Len(list) : list[i] = s })]

\* (service_counts.values / total_clinicians * 100).round(1), in tenths
CoveragePct(count, total) == Norm(RoundHalfEven(count * 1000, total), 1)

\* filtered_df['Services Offered'].replace('No Match', '-')
ReplaceNoMatch(rows) ==
    [i \in 1..Len(rows) |-> IF rows[i] = NoMatch THEN << "-" >> ELSE rows[i]]

\* Series.str.contains(service, case=False, na=False).sum(); the service
\* names of the catalog hold no character that is special in a pattern
CountContains(rows, service) ==
    Cardinality({ i \in 1..Len(rows) : Contains(Lower(rows[i]), Lower(service)) })

\* doctor_count += 1 for every row with: service in row['Services Offered']
CountIn(rows, service) ==
    Cardinality({ i \in 1..Len(rows) : Contains(rows[i], service) })

\* app2.py: mapped_df, computed once after load_data()
MappedDf ==
    /\ pc = "map"
    /\ mapped_df' = SelectSeq(mapping_df, LAMBDA text : text # NoMatch)
    /\ pc' = "map_page"
    /\ UNCHANGED <<mapping_df, total_clinicians, service_list, service_counts,
                   service_coverage, doctor_counts>>
    /\ UNCHANGED <<scanVars, statVars, loopVars, deptVars, loadVars, csvVars, singleVars>>

\* app.py, Dashboard and Analytics pages: the service tokens of mapping_df
\* (app.py has no mapped_df and tests the sentinel row by row)
ServiceListApp ==
    /\ pc = "map"
    /\ service_list' = Extend(SelectSeq(mapping_df, LAMBDA text : text # NoMatch))
    /\ pc' = "map_listed"
    /\ UNCHANGED <<mapping_df, total_clinicians, mapped_df, service_counts,
                   service_coverage, doctor_counts>>
    /\ UNCHANGED <<scanVars, statVars, loopVars, deptVars, loadVars, csvVars, singleVars>>

\* app2.py, Dashboard and Analytics pages: the service tokens of mapped_df
ServiceListApp2 ==
    /\ pc = "map_page"
    /\ service_list' = Extend(mapped_df)
    /\ pc' = "map_listed"
    /\ UNCHANGED <<mapping_df, total_clinicians, mapped_df, service_counts,
                   service_coverage, doctor_counts>>
    /\ UNCHANGED <<scanVars, statVars, loopVars, deptVars, loadVars, csvVars, singleVars>>

\* app2.py, Clinicians page, "Show All Clinicians" with no other filter
ServiceListClinicians ==
    /\ pc = "map_page"
    /\ service_list' =
           Extend(SelectSeq(ReplaceNoMatch(mapping_df),
                            LAMBDA text : text \notin {NoMatch, << "-" >>, <<>>}))
    /\ pc' = "clinicians_listed"
    /\ UNCHANGED <<mapping_df, total_clinicians, mapped_df, service_counts,
                   service_coverage, doctor_counts>>
    /\ UNCHANGED <<scanVars, statVars, loopVars, deptVars, loadVars, csvVars, singleVars>>

\* unique_services = len(set(service_list))
unique_services == Cardinality({ service_list[i] : i \in 1..Len(service_list) })

\* Analytics page: service_counts
ServiceCounts ==
    /\ pc = "map_listed"
    /\ service_counts' = ValueCounts(service_list)
    /\ pc' = "map_counted"
    /\ UNCHANGED <<mapping_df, total_clinicians, mapped_df, service_list,
                   service_coverage, doctor_counts>>
    /\ UNCHANGED <<scanVars, statVars, loopVars, deptVars, loadVars, csvVars, singleVars>>

\* Analytics page: service_coverage, one row per token of service_counts
ServiceCoverage ==
    /\ pc = "map_counted"
    /\ service_coverage' =
           [s \in DOMAIN service_counts |->
               CoveragePct(service_counts[s], total_clinicians)]
    /\ pc' = "map_covered"
    /\ UNCHANGED <<mapping_df, total_clinicians, mapped_df, service_list,
                   service_counts, doctor_counts>>
    /\ UNCHANGED <<scanVars, statVars, loopVars, deptVars, loadVars, csvVars, singleVars>>

Catalog == { all_services[i] : i \in 1..Len(all_services) }

\* app.py, Services page: 'Number of Clinicians' of every catalog service
DoctorCountApp ==
    /\ pc = "map"
    /\ doctor_counts' = [s \in Catalog |-> CountContains(mapping_df, s)]
    /\ pc' = "services_app"
    /\ UNCHANGED <<mapping_df, total_clinicians, mapped_df, service_list,
                   service_counts, service_coverage>>
    /\ UNCHANGED <<scanVars, statVars, loopVars, deptVars, loadVars, csvVars, singleVars>>

\* app2.py, Services page: 'Number of Clinicians' of every catalog service
DoctorCountApp2 ==
    /\ pc = "map_page"
    /\ doctor_counts' = [s \in Catalog |-> CountIn(mapped_df, s)]
    /\ pc' = "services_app2"
    /\ UNCHANGED <<mapping_df, total_clinicians, mapped_df, service_list,
                   service_counts, service_coverage>>
    /\ UNCHANGED <<scanVars, statVars, loopVars, deptVars, loadVars, csvVars, singleVars>>

MaxMapRows == 2     \* rows of the clinician-service mapping

\* 'Services Offered' texts of the mapping file
ServiceTexts ==
    { NoMatch,
      <<"M", "R", "I">>,
      <<"M", "R", "I", ",", " ", "C", "T", " ", "S", "c", "a", "n">>,
      <<"M", "R", "I", ",", " ", "C", "T", " ", "S", "c", "a", "n", ",", " ", "M", "R", "I">>,
      <<"M", "R", "I", ",", ",", "X", "-", "R", "a", "y">>,
      <<"M", "R", "I", ",", " ", "N", "o", " ", "M", "a", "t", "c", "h">>,
      <<"m", "r", "i">>,
      <<"X", "-", "R", "a", "y">> }

\* The roster and the mapping list the same clinicians, one row each
InitMapping ==
    /\ pc = "map"
    /\ mapping_df \in Tables(ServiceTexts, MaxMapRows)
    /\ total_clinicians = Len(mapping_df)
    /\ mapped_df = <<>>
    /\ service_list = <<>>
    /\ service_counts = <<>>
    /\ service_coverage = <<>>
    /\ doctor_counts = <<>>
    /\ ScanIdle
    /\ StatIdle
    /\ LoopIdle
    /\ DeptIdle
    /\ LoadIdle
    /\ CsvIdle
    /\ SingleIdle

NextMapping ==
    \/ MappedDf
    \/ ServiceListApp
    \/ ServiceListApp2
    \/ ServiceListClinicians
    \/ ServiceCounts
    \/ ServiceCoverage
    \/ DoctorCountApp
    \/ DoctorCountApp2

SpecMapping == InitMapping /\ [][NextMapping]_vars

----------------------------------------------------------------------------
(* Analytics page, Department Insights: categorize_specialization (the     *)
(* same function in app.py and app2.py).  A department is named by its     *)
(* label.                                                                  *)

\* any(word in spec_lower for word in words)
AnyWordIn(words, spec_lower) ==
    \E i \in 1..Len(words) : Contains(spec_lower, words[i])

\* categorize_specialization with the ENT test moved to the front
categorize_specialization_EntFirst(spec) ==
    LET spec_lower == Lower(spec)
    IN  IF AnyWordIn(
            << <<"e", "n", "t">>,
               <<"e", "a", "r">>,
               <<"n", "o", "s", "e">>,
               <<"t", "h", "r", "o", "a", "t">> >>,
            spec_lower)
        THEN "ENT"
        ELSE IF AnyWordIn(
            << <<"c", "a", "r", "d", "i", "o">>,
               <<"h", "e", "a", "r", "t">> >>,
            spec_lower)
        THEN "Cardiology"
        ELSE IF AnyWordIn(
            << <<"o", "r", "t", "h", "o">>,
               <<"b", "o", "n", "e">>,
               <<"j", "o", "i", "n", "t">>,
               <<"k", "n", "e", "e">>,
               <<"h", "i", "p">>,
               <<"s", "p", "i", "n", "e">> >>,
            spec_lower)
        THEN "Orthopaedics"
        ELSE IF AnyWordIn(
            << <<"g", "a", "s", "t", "r", "o">>,
               <<"h", "e", "p", "a", "t", "o">>,
               <<"b", "o", "w", "e", "l">> >>,
            spec_lower)
        THEN "Gastroenterology"
        ELSE IF AnyWordIn(
            << <<"b", "r", "e", "a", "s", "t">>,
               <<"o", "n", "c", "o", "p", "l", "a", "s", "t", "i", "c">> >>,
            spec_lower)
        THEN "Breast Care"
        ELSE IF AnyWordIn(
            << <<"d", "e", "r", "m", "a", "t">>,
               <<"s", "k", "i", "n">> >>,
            spec_lower)
        THEN "Dermatology"
        ELSE IF AnyWordIn(
            << <<"n", "e", "u", "r", "o">>,
               <<"b", "r", "a", "i", "n">> >>,
            spec_lower)
        THEN "Neurology/Neurosurgery"
        ELSE IF AnyWordIn(
            << <<"g", "y", "n", "a", "e">>,
               <<"o", "b", "s", "t", "e", "t">>,
               <<"w", "o", "m", "e", "n">> >>,
            spec_lower)
        THEN "Women's Health"
        ELSE IF AnyWordIn(
            << <<"p", "h", "y", "s", "i", "o">>,
               <<"t", "h", "e", "r", "a", "p", "y">> >>,
            spec_lower)
        THEN "Physiotherapy"
        ELSE IF AnyWordIn(
            << <<"g", "p">>,
               <<"g", "e", "n", "e", "r", "a", "l", " ", "p", "r", "a", "c", "t", "i", "c", "e">>,
               <<"p", "r", "a", "c", "t", "i", "t", "i", "o", "n", "e", "r">> >>,
            spec_lower)
        THEN "General Practice"
        ELSE IF AnyWordIn(
            << <<"u", "r", "o", "l">>,
               <<"k", "i", "d", "n", "e", "y">>,
               <<"r", "e", "n", "a", "l">> >>,
            spec_lower)
        THEN "Urology/Renal"
        ELSE IF AnyWordIn(
            << <<"p", "l", "a", "s", "t", "i", "c">>,
               <<"a", "e", "s", "t", "h", "e", "t", "i", "c">>,
               <<"c", "o", "s", "m", "e", "t", "i", "c">> >>,
            spec_lower)
        THEN "Plastic Surgery"
        ELSE "Other Specialties"

\* categorize_specialization without spec.lower()
categorize_specialization_NoLower(spec) ==
    LET spec_lower == spec
    IN  IF AnyWordIn(
            << <<"c", "a", "r", "d", "i", "o">>,
               <<"h", "e", "a", "r", "t">> >>,
            spec_lower)
        THEN "Cardiology"
        ELSE IF AnyWordIn(
            << <<"o", "r", "t", "h", "o">>,
               <<"b", "o", "n", "e">>,
               <<"j", "o", "i", "n", "t">>,
               <<"k", "n", "e", "e">>,
               <<"h", "i", "p">>,
               <<"s", "p", "i", "n", "e">> >>,
            spec_lower)
        THEN "Orthopaedics"
        ELSE IF AnyWordIn(
            << <<"g", "a", "s", "t", "r", "o">>,
               <<"h", "e", "p", "a", "t", "o">>,
               <<"b", "o", "w", "e", "l">> >>,
            spec_lower)
        THEN "Gastroenterology"
        ELSE IF AnyWordIn(
            << <<"b", "r", "e", "a", "s", "t">>,
               <<"o", "n", "c", "o", "p", "l", "a", "s", "t", "i", "c">> >>,
            spec_lower)
        THEN "Breast Care"
        ELSE IF AnyWordIn(
            << <<"d", "e", "r", "m", "a", "t">>,
               <<"s", "k", "i", "n">> >>,
            spec_lower)
        THEN "Dermatology"
        ELSE IF AnyWordIn(
            << <<"e", "n", "t">>,
               <<"e", "a", "r">>,
               <<"n", "o", "s", "e">>,
               <<"t", "h", "r", "o", "a", "t">> >>,
            spec_lower)
        THEN "ENT"
        ELSE IF AnyWordIn(
            << <<"n", "e", "u", "r", "o">>,
               <<"b", "r", "a", "i", "n">> >>,
            spec_lower)
        THEN "Neurology/Neurosurgery"
        ELSE IF AnyWordIn(
            << <<"g", "y", "n", "a", "e">>,
               <<"o", "b", "s", "t", "e", "t">>,
               <<"w", "o", "m", "e", "n">> >>,
            spec_lower)
        THEN "Women's Health"
        ELSE IF AnyWordIn(
            << <<"p", "h", "y", "s", "i", "o">>,
               <<"t", "h", "e", "r", "a", "p", "y">> >>,
            spec_lower)
        THEN "Physiotherapy"
        ELSE IF AnyWordIn(
            << <<"g", "p">>,
               <<"g", "e", "n", "e", "r", "a", "l", " ", "p", "r", "a", "c", "t", "i", "c", "e">>,
               <<"p", "r", "a", "c", "t", "i", "t", "i", "o", "n", "e", "r">> >>,
            spec_lower)
        THEN "General Practice"
        ELSE IF AnyWordIn(
            << <<"u", "r", "o", "l">>,
               <<"k", "i", "d", "n", "e", "y">>,
               <<"r", "e", "n", "a", "l">> >>,
            spec_lower)
        THEN "Urology/Renal"
        ELSE IF AnyWordIn(
            << <<"p", "l", "a", "s", "t", "i", "c">>,
               <<"a", "e", "s", "t", "h", "e", "t", "i", "c">>,
               <<"c", "o", "s", "m", "e", "t", "i", "c">> >>,
            spec_lower)
        THEN "Plastic Surgery"
        ELSE "Other Specialties"

categorize_specialization(spec) ==
    LET spec_lower == Lower(spec)
    IN  IF AnyWordIn(
            << <<"c", "a", "r", "d", "i", "o">>,
               <<"h", "e", "a", "r", "t">> >>,
            spec_lower)
        THEN "Cardiology"
        ELSE IF AnyWordIn(
            << <<"o", "r", "t", "h", "o">>,
               <<"b", "o", "n", "e">>,
               <<"j", "o", "i", "n", "t">>,
               <<"k", "n", "e", "e">>,
               <<"h", "i", "p">>,
               <<"s", "p", "i", "n", "e">> >>,
            spec_lower)
        THEN "Orthopaedics"
        ELSE IF AnyWordIn(
            << <<"g", "a", "s", "t", "r", "o">>,
               <<"h", "e", "p", "a", "t", "o">>,
               <<"b", "o", "w", "e", "l">> >>,
            spec_lower)
        THEN "Gastroenterology"
        ELSE IF AnyWordIn(
            << <<"b", "r", "e", "a", "s", "t">>,
               <<"o", "n", "c", "o", "p", "l", "a", "s", "t", "i", "c">> >>,
            spec_lower)
        THEN "Breast Care"
        ELSE IF AnyWordIn(
            << <<"d", "e", "r", "m", "a", "t">>,
               <<"s", "k", "i", "n">> >>,
            spec_lower)
        THEN "Dermatology"
        ELSE IF AnyWordIn(
            << <<"e", "n", "t">>,
               <<"e", "a", "r">>,
               <<"n", "o", "s", "e">>,
               <<"t", "h", "r", "o", "a", "t">> >>,
            spec_lower)
        THEN "ENT"
        ELSE IF AnyWordIn(
            << <<"n", "e", "u", "r", "o">>,
               <<"b", "r", "a", "i", "n">> >>,
            spec_lower)
        THEN "Neurology/Neurosurgery"
        ELSE IF AnyWordIn(
            << <<"g", "y", "n", "a", "e">>,
               <<"o", "b", "s", "t", "e", "t">>,
               <<"w", "o", "m", "e", "n">> >>,
            spec_lower)
        THEN "Women's Health"
        ELSE IF AnyWordIn(
            << <<"p", "h", "y", "s", "i", "o">>,
               <<"t", "h", "e", "r", "a", "p", "y">> >>,
            spec_lower)
        THEN "Physiotherapy"
        ELSE IF AnyWordIn(
            << <<"g", "p">>,
               <<"g", "e", "n", "e", "r", "a", "l", " ", "p", "r", "a", "c", "t", "i", "c", "e">>,
               <<"p", "r", "a", "c", "t", "i", "t", "i", "o", "n", "e", "r">> >>,
            spec_lower)
        THEN "General Practice"
        ELSE IF AnyWordIn(
            << <<"u", "r", "o", "l">>,
               <<"k", "i", "d", "n", "e", "y">>,
               <<"r", "e", "n", "a", "l">> >>,
            spec_lower)
        THEN "Urology/Renal"
        ELSE IF AnyWordIn(
            << <<"p", "l", "a", "s", "t", "i", "c">>,
               <<"a", "e", "s", "t", "h", "e", "t", "i", "c">>,
               <<"c", "o", "s", "m", "e", "t", "i", "c">> >>,
            spec_lower)
        THEN "Plastic Surgery"
        ELSE "Other Specialties"

\* clinicians_df['Specialization'].apply(categorize_specialization), one
\* specialization at a time
Categorize ==
    /\ pc = "dept"
    /\ department' = categorize_specialization(specialization)
    /\ pc' = "dept_done"
    /\ UNCHANGED specialization
    /\ UNCHANGED <<scanVars, statVars, loopVars, mapVars, loadVars, csvVars, singleVars>>

MaxWords == 2       \* words of a generated specialization

\* Words of the 'Specialization' column
SpecWords ==
    { <<"C", "a", "r", "d", "i", "o", "l", "o", "g", "y">>,
      <<"H", "E", "A", "R", "T">>,
      <<"K", "n", "e", "e">>,
      <<"G", "a", "s", "t", "r", "o">>,
      <<"O", "n", "c", "o", "p", "l", "a", "s", "t", "i", "c">>,
      <<"S", "k", "i", "n">>,
      <<"E", "N", "T">>,
      <<"D", "e", "p", "a", "r", "t", "m", "e", "n", "t">>,
      <<"N", "e", "u", "r", "o">>,
      <<"G", "y", "n", "a", "e">>,
      <<"P", "h", "y", "s", "i", "o", "t", "h", "e", "r", "a", "p", "y">>,
      <<"G", "P">>,
      <<"U", "r", "o", "l", "o", "g", "y">>,
      <<"P", "l", "a", "s", "t", "i", "c">>,
      <<"S", "u", "r", "g", "e", "o", "n">>,
      <<"C", "o", "n", "s", "u", "l", "t", "a", "n", "t">>,
      <<"G", "e", "n", "e", "r", "a", "l">>,
      <<"P", "r", "a", "c", "t", "i", "c", "e">> }

\* ' '.join(words)
RECURSIVE JoinWords(_)
JoinWords(ws) ==
    IF Len(ws) = 1 THEN ws[1]
    ELSE ws[1] \o << " " >> \o JoinWords(Tail(ws))

Specializations ==
    UNION { { JoinWords(ws) : ws \in [1..n -> SpecWords] } : n \in 1..MaxWords }

InitClassify ==
    /\ pc = "dept"
    /\ specialization \in Specializations
    /\ department = <<>>
    /\ ScanIdle
    /\ StatIdle
    /\ LoopIdle
    /\ MapIdle
    /\ LoadIdle
    /\ CsvIdle
    /\ SingleIdle

NextClassify ==
    \/ Categorize

SpecClassify == InitClassify /\ [][NextClassify]_vars

----------------------------------------------------------------------------
(* load_data() and the module level of app.py and app2.py: the four reads, *)
(* the check of the result, the sidebar and the page that is rendered.     *)
(* bound[v] tells whether the module-level name v is unassigned, None or a *)
(* table; the table itself is the value of the variable of that name.      *)

\* The files in the order load_data() reads them
FileNames ==
    << "clinicians.csv", "services.csv", "doctor_services_mapping.csv",
       "Lyca_prices.csv" >>

TableNames == {"clinicians_df", "services_df", "mapping_df", "prices_df"}

Pages == {"Dashboard Overview", "Clinicians", "Services", "Pricing", "Analytics"}

\* The next pd.read_csv of the try block
NextFile == FileNames[Len(read) + 1]

Loading == pc = "load" /\ Len(read) < Len(FileNames)

\* pd.read_csv(file) returns a table
ReadCsv ==
    /\ Loading
    /\ disk[NextFile].status = "ok"
    /\ read' = Append(read, NextFile)
    /\ UNCHANGED <<pc, disk, bound, clinicians_df, services_df, shown,
                   selected_page, view, dept_counts, dept_summary>>
    /\ UNCHANGED <<scanVars, statVars, loopVars, mapVars, deptVars, csvVars, singleVars>>

\* pd.read_csv(file) raises FileNotFoundError: the except branch reports e,
\* which names that file, and returns None, None, None, None
LoadNotFound ==
    /\ Loading
    /\ disk[NextFile].status = "missing"
    /\ shown' = Append(shown, [by |-> "st.error", sources |-> {NextFile}])
    /\ read' = <<>>
    /\ bound' = [v \in TableNames |-> "None"]
    /\ pc' = "loaded"
    /\ UNCHANGED <<disk, clinicians_df, services_df, selected_page, view,
                   dept_counts, dept_summary>>
    /\ UNCHANGED <<scanVars, statVars, loopVars, mapVars, deptVars, csvVars, singleVars>>

\* pd.read_csv(file) raises another exception (UnicodeDecodeError,
\* ParserError, EmptyDataError): no except branch takes it, the script run
\* ends with the exception on the page
LoadRaise ==
    /\ Loading
    /\ disk[NextFile].status = "unreadable"
    /\ shown' = Append(shown, [by |-> "exception", sources |-> {NextFile}])
    /\ read' = <<>>
    /\ pc' = "aborted"
    /\ UNCHANGED <<disk, bound, clinicians_df, services_df, selected_page,
                   view, dept_counts, dept_summary>>
    /\ UNCHANGED <<scanVars, statVars, loopVars, mapVars, deptVars, csvVars, singleVars>>

\* return clinicians, services, mapping, prices, assigned at module level
LoadReturn ==
    /\ pc = "load"
    /\ Len(read) = Len(FileNames)
    /\ clinicians_df' = disk["clinicians.csv"].rows
    /\ services_df' = disk["services.csv"].rows
    /\ mapping_df' = disk["doctor_services_mapping.csv"].rows
    /\ prices_df' = disk["Lyca_prices.csv"].rows
    /\ bound' = [v \in TableNames |-> "table"]
    /\ read' = <<>>
    /\ pc' = "loaded"
    /\ UNCHANGED <<disk, shown, selected_page, view, dept_counts, dept_summary>>
    /\ UNCHANGED <<search_price, idx, current_category, page>>
    /\ UNCHANGED <<total_clinicians, mapped_df, service_list, service_counts,
                   service_coverage, doctor_counts>>
    /\ UNCHANGED <<statVars, loopVars, deptVars, csvVars, singleVars>>

\* app.py: the sidebar comes before the check of the result
SidebarApp ==
    /\ pc = "loaded"
    /\ selected_page' \in Pages
    /\ pc' = "sidebar_app"
    /\ UNCHANGED <<disk, read, bound, clinicians_df, services_df, shown, view,
                   dept_counts, dept_summary>>
    /\ UNCHANGED <<scanVars, statVars, loopVars, mapVars, deptVars, csvVars, singleVars>>

\* app.py: if clinicians_df is None: st.stop()
StopApp ==
    /\ pc = "sidebar_app"
    /\ bound["clinicians_df"] = "None"
    /\ pc' = "stopped"
    /\ UNCHANGED <<loadVars, scanVars, statVars, loopVars, mapVars, deptVars, csvVars, singleVars>>

\* app2.py: if clinicians_df is None: st.stop(), before the sidebar
StopApp2 ==
    /\ pc = "loaded"
    /\ bound["clinicians_df"] = "None"
    /\ pc' = "stopped"
    /\ UNCHANGED <<loadVars, scanVars, statVars, loopVars, mapVars, deptVars, csvVars, singleVars>>

\* app2.py: the sidebar, then mapped_df
SidebarApp2 ==
    /\ pc = "loaded"
    /\ bound["clinicians_df"] # "None"
    /\ selected_page' \in Pages
    /\ mapped_df' = SelectSeq(mapping_df, LAMBDA text : text # NoMatch)
    /\ pc' = "sidebar_app2"
    /\ UNCHANGED <<disk, read, bound, clinicians_df, services_df, shown, view,
                   dept_counts, dept_summary>>
    /\ UNCHANGED <<mapping_df, total_clinicians, service_list, service_counts,
                   service_coverage, doctor_counts>>
    /\ UNCHANGED <<scanVars, statVars, loopVars, deptVars, csvVars, singleVars>>

\* Mutant: app.py without the check of the result
AtPage_NoCheck == pc \in {"sidebar_app", "sidebar_app2"}

AtPage ==
    \/ pc = "sidebar_app" /\ bound["clinicians_df"] # "None"
    \/ pc = "sidebar_app2"

\* A page other than Analytics: it reads the tables, and filters work on
\* copies (filtered_df = mapping_df.copy())
RenderPage ==
    /\ AtPage
    /\ selected_page # "Analytics"
    /\ view' = selected_page
    /\ pc' = "rendered"
    /\ UNCHANGED <<disk, read, bound, clinicians_df, services_df, shown,
                   selected_page, dept_counts, dept_summary>>
    /\ UNCHANGED <<scanVars, statVars, loopVars, mapVars, deptVars, csvVars, singleVars>>

\* clinicians_df['Department'] =
\*     clinicians_df['Specialization'].apply(categorize_specialization)
WithDepartment(rows) ==
    [i \in 1..Len(rows) |->
        [Name |-> rows[i].Name,
         Specialization |-> rows[i].Specialization,
         Department |-> categorize_specialization(rows[i].Specialization)]]

\* percentage = (count / len(clinicians_df) * 100), written with :.1f
Percentage(count, total) == Norm(RoundHalfEven(count * 1000, total), 1)

\* The Analytics page, Department Insights
RenderAnalytics ==
    /\ AtPage
    /\ selected_page = "Analytics"
    /\ clinicians_df' = WithDepartment(clinicians_df)
    /\ dept_counts' =
           ValueCounts([i \in 1..Len(clinicians_df) |->
                           WithDepartment(clinicians_df)[i].Department])
    /\ dept_summary' =
           [d \in DOMAIN dept_counts' |->
               Percentage(dept_counts'[d], Len(clinicians_df'))]
    /\ view' = selected_page
    /\ pc' = "rendered"
    /\ UNCHANGED <<disk, read, bound, services_df, shown, selected_page>>
    /\ UNCHANGED <<scanVars, statVars, loopVars, mapVars, deptVars, csvVars, singleVars>>

MaxClinicians == 2  \* rows of the clinician roster

\* Rows of clinicians.csv
RosterRows ==
    { [Name |-> "Dr. A", Specialization |-> <<"C", "a", "r", "d", "i", "o", "l", "o", "g", "y", " ", "C", "o", "n", "s", "u", "l", "t", "a", "n", "t">>],
      [Name |-> "Dr. B", Specialization |-> <<"E", "N", "T", " ", "S", "u", "r", "g", "e", "o", "n">>],
      [Name |-> "Dr. C", Specialization |-> <<"D", "i", "e", "t", "i", "t", "i", "a", "n">>] }

ServicesCsv == all_services

MappingCsv == << <<"M", "R", "I", ",", " ", "C", "T", " ", "S", "c", "a", "n">>, NoMatch >>

PricesCsv ==
    << << Cell(<<"M", "R", "I">>), NaN, NaN >>,
       << Cell(<<"H", "e", "a", "d", " ", "M", "R", "I">>), Cell(<<"£", "5", "0", "0">>), Cell(<<"£", "4", "5", "0">>) >> >>

FileStatus == {"ok", "missing", "unreadable"}

\* A file that is there and readable has rows
File(status, rows) ==
    [status |-> status, rows |-> IF status = "ok" THEN rows ELSE <<>>]

\* The four files: any status each, and any roster
Files ==
    { [f \in { FileNames[i] : i \in 1..Len(FileNames) } |->
          CASE f = "clinicians.csv" -> File(s[1], roster)
            [] f = "services.csv" -> File(s[2], ServicesCsv)
            [] f = "doctor_services_mapping.csv" -> File(s[3], MappingCsv)
            [] OTHER -> File(s[4], PricesCsv)] :
        s \in [1..4 -> FileStatus], roster \in Tables(RosterRows, MaxClinicians) }

InitLoad ==
    /\ pc = "load"
    /\ disk \in Files
    /\ read = <<>>
    /\ bound = [v \in TableNames |-> "unassigned"]
    /\ clinicians_df = <<>>
    /\ services_df = <<>>
    /\ shown = <<>>
    /\ selected_page = ""
    /\ view = ""
    /\ dept_counts = <<>>
    /\ dept_summary = <<>>
    /\ ScanIdle
    /\ StatIdle
    /\ LoopIdle
    /\ MapIdle
    /\ DeptIdle
    /\ CsvIdle
    /\ SingleIdle

NextLoad ==
    \/ ReadCsv
    \/ LoadNotFound
    \/ LoadRaise
    \/ LoadReturn
    \/ SidebarApp
    \/ StopApp
    \/ StopApp2
    \/ SidebarApp2
    \/ RenderPage
    \/ RenderAnalytics

SpecLoad == InitLoad /\ [][NextLoad]_vars

----------------------------------------------------------------------------
(* app2.py, Pricing page: load_pricing_csvs() and the tabs.  A file is     *)
(* described by what decides the outcome of pd.read_csv: whether it is     *)
(* there, how its bytes decode, and the number of fields of each line.     *)
(* idx is 1-based here, enumerate() counts from 0.                         *)

\* csv_files, in the order of the dict
Categories ==
    << "Audiology", "One Stop Breast Clinic", "Cardiology", "CT",
       "Minor Operations", "MRI", "Physiotherapy", "Ultrasound", "X-Ray" >>

\* for encoding in ['utf-8', 'latin-1', 'cp1252', 'iso-8859-1']
Encodings == << "utf-8", "latin-1", "cp1252", "iso-8859-1" >>

\* Whether the codec decodes the bytes: utf-8 rejects a byte sequence that
\* is not UTF-8, cp1252 rejects its five unassigned bytes, latin-1 and its
\* alias iso-8859-1 decode every byte
Decodes(encoding, bytes) ==
    CASE encoding = "utf-8" -> bytes = "utf-8"
      [] encoding = "cp1252" -> bytes # "unassigned"
      [] OTHER -> TRUE

Columns == 3        \* df.columns = ['Service', 'Canary Wharf', 'Orpington']

\* The C parser raises ParserError on a line with more fields than the
\* header line
TooManyFields(file) ==
    \E k \in 2..Len(file.fields) : file.fields[k] > file.fields[1]

\* Mutant: the loop over the encodings without its break
RECURSIVE TryEncodings_NoBreak(_, _, _)
TryEncodings_NoBreak(file, encodings, tried) ==
    IF encodings = <<>>
    THEN [outcome |-> IF \E i \in 1..Len(tried) : Decodes(tried[i], file.bytes)
                      THEN "read" ELSE "undecodable",
          tried |-> tried, encoding |-> tried[Len(tried)]]
    ELSE TryEncodings_NoBreak(file, Tail(encodings), Append(tried, Head(encodings)))

\* The loop over the encodings: the first read_csv that does not raise
\* UnicodeDecodeError ends it, another exception leaves it
RECURSIVE TryEncodings(_, _, _)
TryEncodings(file, encodings, tried) ==
    IF encodings = <<>>
    THEN [outcome |-> "undecodable", tried |-> tried, encoding |-> ""]
    ELSE LET encoding == Head(encodings)
             now == Append(tried, encoding)
         IN  IF ~file.exists
             THEN [outcome |-> "FileNotFoundError", tried |-> now, encoding |-> ""]
             ELSE IF ~Decodes(encoding, file.bytes)
             THEN TryEncodings(file, Tail(encodings), now)
             ELSE IF TooManyFields(file)
             THEN [outcome |-> "ParserError", tried |-> now, encoding |-> ""]
             ELSE [outcome |-> "read", tried |-> now, encoding |-> encoding]

\* What the try block of one file ends with
LoadOutcome(file) ==
    LET r == TryEncodings(file, Encodings, <<>>)
    IN  IF r.outcome = "read" /\ file.fields[1] # Columns
        THEN [r EXCEPT !.outcome = "ValueError"]
        ELSE r

\* df.iloc[1:]: the lines after the header line and the first row; a line
\* with fewer fields than the header is filled with NaN
Frame(file, encoding) ==
    [encoding |-> encoding,
     rows |-> [k \in 1..(Len(file.fields) - 2) |->
                  [line |-> k + 2, filled |-> Columns - file.fields[k + 2]]]]

LoadingCsv == pc = "load_csv" /\ csv_idx <= Len(Categories)

\* pricing_data[category] = df
LoadCsvStore ==
    /\ LoadingCsv
    /\ LET category == Categories[csv_idx]
           r == LoadOutcome(csv_files[category])
       IN  /\ r.outcome = "read"
           /\ pricing_data' =
                  Append(pricing_data,
                         [category |-> category,
                          df |-> Frame(csv_files[category], r.encoding)])
           /\ attempts' = Append(attempts, r.tried)
    /\ csv_idx' = csv_idx + 1
    /\ UNCHANGED <<pc, csv_files, tab_views>>
    /\ UNCHANGED <<loadVars, scanVars, statVars, loopVars, mapVars, deptVars, singleVars>>

\* st.error(f"Error loading {category}: ..."), from the else branch when no
\* encoding decoded and from the except branch otherwise
LoadCsvError ==
    /\ LoadingCsv
    /\ LET category == Categories[csv_idx]
           r == LoadOutcome(csv_files[category])
       IN  /\ r.outcome # "read"
           /\ shown' = Append(shown, [by |-> "st.error", sources |-> {category},
                                      what |-> r.outcome])
           /\ attempts' = Append(attempts, r.tried)
    /\ csv_idx' = csv_idx + 1
    /\ UNCHANGED <<pc, csv_files, pricing_data, tab_views>>
    /\ UNCHANGED <<disk, read, bound, clinicians_df, services_df,
                   selected_page, view, dept_counts, dept_summary>>
    /\ UNCHANGED <<scanVars, statVars, loopVars, mapVars, deptVars, singleVars>>

\* return pricing_data; tabs = st.tabs([...]); category_names = ...
LoadCsvReturn ==
    /\ pc = "load_csv"
    /\ csv_idx > Len(Categories)
    /\ idx' = 1
    /\ pc' = "tabs"
    /\ UNCHANGED <<prices_df, search_price, current_category, page>>
    /\ UNCHANGED <<loadVars, csvVars, statVars, loopVars, mapVars, deptVars, singleVars>>

\* The labels of st.tabs, by the category each names
TabLabels ==
    << "Audiology", "Breast Clinic", "Cardiology", "CT", "Minor Operations",
       "MRI", "Physiotherapy", "Ultrasound", "X-Ray" >>

\* category_names = list(pricing_data.keys())
category_names == [i \in 1..Len(pricing_data) |-> pricing_data[i].category]

\* category = category_names[idx]; df = pricing_data[category]
TabShow ==
    /\ pc = "tabs"
    /\ idx <= Len(TabLabels)
    /\ idx <= Len(category_names)
    /\ tab_views' = Append(tab_views, [tab |-> TabLabels[idx],
                                       category |-> category_names[idx]])
    /\ idx' = idx + 1
    /\ UNCHANGED <<pc, csv_files, csv_idx, pricing_data, attempts>>
    /\ UNCHANGED <<prices_df, search_price, current_category, page>>
    /\ UNCHANGED <<loadVars, statVars, loopVars, mapVars, deptVars, singleVars>>

\* category_names[idx] raises IndexError: the script run ends
TabIndexError ==
    /\ pc = "tabs"
    /\ idx <= Len(TabLabels)
    /\ idx > Len(category_names)
    /\ shown' = Append(shown, [by |-> "exception", sources |-> {TabLabels[idx]},
                               what |-> "IndexError"])
    /\ pc' = "aborted"
    /\ UNCHANGED <<disk, read, bound, clinicians_df, services_df,
                   selected_page, view, dept_counts, dept_summary>>
    /\ UNCHANGED <<csvVars, scanVars, statVars, loopVars, mapVars, deptVars, singleVars>>

TabsEnd ==
    /\ pc = "tabs"
    /\ idx > Len(TabLabels)
    /\ pc' = "tabs_done"
    /\ UNCHANGED <<loadVars, csvVars, scanVars, statVars, loopVars, mapVars, deptVars, singleVars>>

MaxOddFiles == 2    \* files other than a well-formed UTF-8 file

GoodFile == [exists |-> TRUE, bytes |-> "utf-8", fields |-> <<3, 3, 3, 3>>]

\* Price files: well-formed, in Latin-1, with a cp1252-unassigned byte,
\* missing, with a line of four fields, with a line of two fields, with
\* four columns
CsvFiles ==
    { GoodFile,
      [exists |-> TRUE, bytes |-> "latin-1", fields |-> <<3, 3, 3, 3>>],
      [exists |-> TRUE, bytes |-> "unassigned", fields |-> <<3, 3, 3, 3>>],
      [exists |-> FALSE, bytes |-> "utf-8", fields |-> <<>>],
      [exists |-> TRUE, bytes |-> "utf-8", fields |-> <<3, 3, 4, 3>>],
      [exists |-> TRUE, bytes |-> "utf-8", fields |-> <<3, 3, 2, 3>>],
      [exists |-> TRUE, bytes |-> "utf-8", fields |-> <<4, 4, 4, 4>>] }

CategorySet == { Categories[i] : i \in 1..Len(Categories) }

\* Every choice of at most MaxOddFiles files that are not well-formed UTF-8
FilesOnDisk ==
    UNION { { [c \in CategorySet |-> IF c \in odd THEN g[c] ELSE GoodFile] :
                g \in [odd -> CsvFiles \ {GoodFile}] } :
            odd \in { s \in SUBSET CategorySet : Cardinality(s) <= MaxOddFiles } }

InitPricingFiles ==
    /\ pc = "load_csv"
    /\ csv_files \in FilesOnDisk
    /\ csv_idx = 1
    /\ pricing_data = <<>>
    /\ attempts = <<>>
    /\ tab_views = <<>>
    /\ LoadIdle
    /\ ScanIdle
    /\ StatIdle
    /\ LoopIdle
    /\ MapIdle
    /\ DeptIdle
    /\ SingleIdle

NextPricingFiles ==
    \/ LoadCsvStore
    \/ LoadCsvError
    \/ LoadCsvReturn
    \/ TabShow
    \/ TabIndexError
    \/ TabsEnd

SpecPricingFiles == InitPricingFiles /\ [][NextPricingFiles]_vars

----------------------------------------------------------------------------
(* app.py, Pricing page, one category selected: the scan of prices_df for  *)
(* the rows of selected_category                                           *)

\* The values of the category list other than 'All': every first cell that
\* is not missing and not blank
Selectable(table) ==
    { table[i][1].text : i \in { j \in 1..Len(table) : ~IsBlankName(table[j][1]) } }

SingleScanning == pc = "single" /\ idx <= Len(prices_df)

\* service_name == selected_category
IsSelected(name) == name.text = selected_category

SingleSkipBlank ==
    /\ SingleScanning
    /\ IsBlankName(prices_df[idx][1])
    /\ idx' = idx + 1
    /\ UNCHANGED <<pc, prices_df, search_price, current_category, page>>
    /\ UNCHANGED <<singleVars, loadVars, csvVars, statVars, loopVars, mapVars, deptVars>>

\* if service_name == selected_category: in_category = True
SingleEnter ==
    /\ SingleScanning
    /\ ~IsBlankName(prices_df[idx][1])
    /\ IsSelected(prices_df[idx][1])
    /\ in_category' = TRUE
    /\ idx' = idx + 1
    /\ UNCHANGED <<pc, prices_df, search_price, current_category, page>>
    /\ UNCHANGED <<selected_category, services_found>>
    /\ UNCHANGED <<loadVars, csvVars, statVars, loopVars, mapVars, deptVars>>

\* if in_category and both prices are missing: break
SingleBreak ==
    /\ SingleScanning
    /\ ~IsBlankName(prices_df[idx][1])
    /\ ~IsSelected(prices_df[idx][1])
    /\ in_category /\ IsHeaderRow(prices_df[idx])
    /\ pc' = "single_after"
    /\ UNCHANGED <<prices_df, search_price, idx, current_category, page>>
    /\ UNCHANGED <<singleVars, loadVars, csvVars, statVars, loopVars, mapVars, deptVars>>

\* A row before the category was met: no branch is taken
SingleOutside ==
    /\ SingleScanning
    /\ ~IsBlankName(prices_df[idx][1])
    /\ ~IsSelected(prices_df[idx][1])
    /\ ~in_category
    /\ idx' = idx + 1
    /\ UNCHANGED <<pc, prices_df, search_price, current_category, page>>
    /\ UNCHANGED <<singleVars, loadVars, csvVars, statVars, loopVars, mapVars, deptVars>>

SingleSearchSkip ==
    /\ SingleScanning
    /\ ~IsBlankName(prices_df[idx][1])
    /\ ~IsSelected(prices_df[idx][1])
    /\ in_category /\ ~IsHeaderRow(prices_df[idx])
    /\ SearchHides(search_price, prices_df[idx][1])
    /\ idx' = idx + 1
    /\ UNCHANGED <<pc, prices_df, search_price, current_category, page>>
    /\ UNCHANGED <<singleVars, loadVars, csvVars, statVars, loopVars, mapVars, deptVars>>

SingleDisplay ==
    /\ SingleScanning
    /\ ~IsBlankName(prices_df[idx][1])
    /\ ~IsSelected(prices_df[idx][1])
    /\ in_category /\ ~IsHeaderRow(prices_df[idx])
    /\ ~SearchHides(search_price, prices_df[idx][1])
    /\ services_found' = TRUE
    /\ page' = Append(page, [kind |-> "service", row |-> idx,
                             service |-> prices_df[idx][1].text,
                             canary |-> ShownPrice(prices_df[idx][2]),
                             orpington |-> ShownPrice(prices_df[idx][3])])
    /\ idx' = idx + 1
    /\ UNCHANGED <<pc, prices_df, search_price, current_category>>
    /\ UNCHANGED <<selected_category, in_category>>
    /\ UNCHANGED <<loadVars, csvVars, statVars, loopVars, mapVars, deptVars>>

\* The loop has been through every row
SingleExhausted ==
    /\ pc = "single"
    /\ idx > Len(prices_df)
    /\ pc' = "single_after"
    /\ UNCHANGED <<prices_df, search_price, idx, current_category, page>>
    /\ UNCHANGED <<singleVars, loadVars, csvVars, statVars, loopVars, mapVars, deptVars>>

\* if not services_found: st.info("No services found in this category.")
SingleFinish ==
    /\ pc = "single_after"
    /\ page' = IF services_found THEN page
               ELSE Append(page, [kind |-> "info", row |-> 0])
    /\ pc' = "single_done"
    /\ UNCHANGED <<prices_df, search_price, idx, current_category>>
    /\ UNCHANGED <<singleVars, loadVars, csvVars, statVars, loopVars, mapVars, deptVars>>

InitSingle ==
    /\ pc = "single"
    /\ prices_df \in Tables(PriceRows, MaxRows)
    /\ search_price \in SearchTerms
    /\ selected_category \in Selectable(prices_df)
    /\ in_category = FALSE
    /\ services_found = FALSE
    /\ idx = 1
    /\ current_category = None
    /\ page = <<>>
    /\ StatIdle
    /\ LoopIdle
    /\ MapIdle
    /\ DeptIdle
    /\ LoadIdle
    /\ CsvIdle

NextSingle ==
    \/ SingleSkipBlank
    \/ SingleEnter
    \/ SingleBreak
    \/ SingleOutside
    \/ SingleSearchSkip
    \/ SingleDisplay
    \/ SingleExhausted
    \/ SingleFinish

SpecSingle == InitSingle /\ [][NextSingle]_vars

----------------------------------------------------------------------------
(* app.py, Pricing page: the scan over every price table *)

Init ==
    /\ pc = "scan"
    /\ prices_df \in Tables(PriceRows, MaxRows)
    /\ search_price \in SearchTerms
    /\ idx = 1
    /\ current_category = None
    /\ page = <<>>
    /\ StatIdle
    /\ LoopIdle
    /\ MapIdle
    /\ DeptIdle
    /\ LoadIdle
    /\ CsvIdle
    /\ SingleIdle

Next ==
    \/ ScanSkipBlank
    \/ ScanHeader
    \/ ScanSearchSkip
    \/ ScanDisplay
    \/ ScanEnd

Spec == Init /\ [][Next]_vars

----------------------------------------------------------------------------
(* Properties of the scan (specification Spec) *)

\* The rows the scan has been through
Scanned == 1..(idx - 1)

\* A first cell that is missing or holds nothing but blanks
BlankCell(c) == c.isna \/ \A i \in 1..Len(c.text) : c.text[i] = " "

\* Row i was written to the page as a category header / as a service
HeaderAt(i) == \E k \in 1..Len(page) : page[k].kind = "header" /\ page[k].row = i
EntryAt(i) == \E k \in 1..Len(page) : page[k].kind = "service" /\ page[k].row = i

EmptyPrices(i) ==
    Cardinality({ k \in {2, 3} : prices_df[i][k].isna })

\* The search term occurs in the name of row i, ignoring case
SearchMatches(i) ==
    \/ search_price = <<>>
    \/ Contains(Lower(prices_df[i][1].text), Lower(search_price))

\* C1: a scanned row with a non-blank first cell is a category header iff
\* both price cells are empty; with exactly one (or no) empty price cell it is
\* a data row, which is written as a price entry (whenever the search term
\* does not hide it, always with the empty search term).
C1_HeaderIffBothPricesEmpty ==
    \A i \in Scanned :
        ~BlankCell(prices_df[i][1]) =>
            /\ HeaderAt(i) <=> EmptyPrices(i) = 2
            /\ EmptyPrices(i) < 2 => (EntryAt(i) <=> SearchMatches(i))
            /\ ~(HeaderAt(i) /\ EntryAt(i))

C1_Witness ==
    \E i \in Scanned, j \in Scanned :
        /\ ~BlankCell(prices_df[i][1]) /\ EmptyPrices(i) = 1 /\ EntryAt(i)
        /\ ~BlankCell(prices_df[j][1]) /\ EmptyPrices(j) = 2 /\ HeaderAt(j)

\* The header rows above row i, in source order
HeadersAbove(i) ==
    { j \in 1..(i - 1) : ~BlankCell(prices_df[j][1]) /\ EmptyPrices(j) = 2 }

LastHeaderAbove(i) == CHOOSE j \in HeadersAbove(i) : \A h \in HeadersAbove(i) : h <= j

Entries == { k \in 1..Len(page) : page[k].kind = "service" }

\* C2 as stated: every price entry has a header row above it, and carries
\* the first-cell text of the nearest one.
C2_EveryEntryHasCategory ==
    \A k \in Entries :
        /\ HeadersAbove(page[k].row) # {}
        /\ page[k].category = prices_df[LastHeaderAbove(page[k].row)][1]

\* C2 amended: a price entry with a header row above it carries the
\* first-cell text of the nearest header row above it, and no other; a price
\* entry above every header row carries no category.
C2_CategoryOfNearestHeader ==
    \A k \in Entries :
        IF HeadersAbove(page[k].row) = {}
        THEN page[k].category = None
        ELSE page[k].category = prices_df[LastHeaderAbove(page[k].row)][1]

C2_Witness ==
    \E k \in Entries :
        /\ Cardinality(HeadersAbove(page[k].row)) = 2
        /\ \E h \in HeadersAbove(page[k].row) : prices_df[h][1] # page[k].category
        /\ page[k].category = prices_df[LastHeaderAbove(page[k].row)][1]

\* C3: the step over a row whose first cell is missing or blank writes
\* nothing to the page and leaves the current category as it was, whatever
\* the price cells hold.
C3_BlankRowSkipped ==
    [][(Scanning /\ BlankCell(prices_df[idx][1]))
         => (page' = page /\ current_category' = current_category)]_vars

C3_Witness ==
    \E i \in Scanned :
        /\ BlankCell(prices_df[i][1])
        /\ ~prices_df[i][1].isna
        /\ EmptyPrices(i) = 2
        /\ current_category # None
        /\ \E j \in Scanned : j > i /\ BlankCell(prices_df[j][1]) /\ EmptyPrices(j) = 0

\* The table of the end-to-end example
C4Rows ==
    << << Cell(<<"M", "R", "I">>), NaN, NaN >>,
       << Cell(<<"H", "e", "a", "d", " ", "M", "R", "I">>),
          Cell(<<"£", "5", "0", "0">>),
          Cell(<<"F", "r", "o", "m", " ", "£", "4", "5", "0">>) >> >>

C4Case == pc = "done" /\ prices_df = C4Rows /\ search_price = <<>>

\* The price table made of the rows written as price entries
EntryRows == SelectSeq(prices_df, LAMBDA row : \E k \in Entries : prices_df[page[k].row] = row)

----------------------------------------------------------------------------
(* Properties of the price statistics (specification SpecStats) *)

\* Exact as the price parser is specified: the cleaned text, less at most
\* one decimal point, is all digits
ExactText(s) == s # <<>> /\ Dots(s) <= 1 /\ IsDigit(Remove(s, "."))

ExactCell(c) == ExactText(Strip(Remove(Remove(Str(c), "£"), ",")))

\* The amounts of the Exact cells among cells, in order
ExactAmounts(cells) ==
    LET sel == SelectSeq(cells, ExactCell)
    IN  [i \in 1..Len(sel) |-> Float(Strip(Remove(Remove(Str(sel[i]), "£"), ",")))]

\* C5: once the insights block has run, a row of the table has a difference
\* row iff both its Canary Wharf and its Orpington cell are Exact.
C5_DifferenceIffBothExact ==
    pc = "tab_done" =>
        \A i \in 1..Len(df) :
            (\E d \in RangeOf(insights.price_diff_data) : d.row = i)
                <=> (ExactCell(df[i][2]) /\ ExactCell(df[i][3]))

\* C6: no price cell makes a statistic fail: no block of the tab is left
\* through its except clause, whatever the cells hold.
C6_NoStatisticDiscarded ==
    /\ ~avg_canary.raised
    /\ ~avg_orp.raised
    /\ ~price_range.raised
    /\ ~insights.raised

\* The average of a column as specified: the mean of its Exact amounts,
\* no number when it has none
IsMeanOfExact(metric, cells) ==
    IF ExactAmounts(cells) = <<>> THEN metric.shown = "Varies"
    ELSE /\ metric.shown = "value"
         /\ metric.sum = SumOf(ExactAmounts(cells))
         /\ metric.n = Len(ExactAmounts(cells))

\* C9: each location's average is the mean (sum / n) of exactly the Exact
\* amounts of its column, and no number when the column has none.
C9_AverageOfExactAmounts ==
    /\ avg_canary.shown # "unset" => IsMeanOfExact(avg_canary, Column(df, 2))
    /\ avg_orp.shown # "unset" => IsMeanOfExact(avg_orp, Column(df, 3))

\* C10: the price range is [min, max] over the Exact amounts of both
\* columns together, both ends being Exact amounts of the category.
C10_RangeOverBothLocations ==
    price_range.shown # "unset" =>
        LET ex == RangeOf(ExactAmounts(Column(df, 2) \o Column(df, 3)))
        IN  IF ex = {} THEN price_range.shown = "Varies"
            ELSE /\ price_range.shown = "value"
                 /\ price_range.lo \in ex
                 /\ price_range.hi \in ex
                 /\ \A a \in ex : ~DecLess(a, price_range.lo) /\ ~DecLess(price_range.hi, a)

\* The rows of the table whose Canary Wharf cell is Exact
ExactCanaryRows == { i \in 1..Len(df) : ExactCell(df[i][2]) }

CanaryAmount(i) == Float(Strip(Remove(Remove(Str(df[i][2]), "£"), ",")))

\* C11: once the insights block has run, the top-5 list for Canary Wharf
\* holds the rows with the five greatest Exact Canary Wharf amounts of the
\* category (all of them when there are at most five), greatest first.
C11_TopFiveOfAllEntries ==
    pc = "tab_done" =>
        LET top == insights.top_expensive
            listed == { top[k].row : k \in 1..Len(top) }
        IN  /\ Len(top) = (IF Cardinality(ExactCanaryRows) < 5
                           THEN Cardinality(ExactCanaryRows) ELSE 5)
            /\ Cardinality(listed) = Len(top)
            /\ listed \subseteq ExactCanaryRows
            /\ \A k \in 1..Len(top) : top[k].Canary = CanaryAmount(top[k].row)
            /\ \A k \in 1..(Len(top) - 1) : ~DecLess(top[k].Canary, top[k + 1].Canary)
            /\ \A i \in ExactCanaryRows \ listed :
                   \A k \in 1..Len(top) : ~DecLess(top[k].Canary, CanaryAmount(i))

----------------------------------------------------------------------------
(* Properties of the price-cell test (specification SpecParse) *)

Tested == pc \in {"loop_skipped", "loop_appended", "loop_raised"}

\* C7: a cell passes as an amount, and its decimal is collected, exactly
\* when its cleaned text, less at most one decimal point, is all digits.
C7_ExactIffAtMostOnePoint ==
    Tested =>
        /\ (pc # "loop_skipped") <=> ExactText(price_str)
        /\ PriceValue(price).qualifier = "Exact" <=> ExactText(price_str)
        /\ ExactText(price_str) => canary_prices = << Float(price_str) >>

\* The cleaned text opens with "From" in any letter case
StartsWithFrom(s) == Len(s) >= 4 /\ Lower(SubSeq(s, 1, 4)) = <<"f", "r", "o", "m">>

\* The number that follows the opening "From"
TrailingAmount(s) == Float(Strip(SubSeq(s, 5, Len(s))))

----------------------------------------------------------------------------
(* Properties of re-parsing (specification SpecReparse) *)

\* The loop has been over the cell and over the amount written back
Reparsed ==
    \/ Len(canary_prices) = 2
    \/ Len(canary_prices) = 1 /\ pc \in {"loop_skipped", "loop_raised"}

\* C12 as stated: for every cell an amount is taken from, writing the
\* amount as text and parsing the text again yields the same amount.
C12_ReparseSameAmount ==
    Reparsed => (Len(canary_prices) = 2 /\ canary_prices[2] = canary_prices[1])

\* The amount is 0 or at least 0.0001, and below 10^16
WrittenInFixedNotation(a) ==
    \/ a.m = 0
    \/ /\ a.m * Pow10(4) >= Pow10(a.e)
       /\ Len(DigitsOf(a.m)) - a.e <= 16

\* C12 amended: for every cell an amount is taken from, if the amount is 0
\* or at least 0.0001 and below 10^16, writing it as text and parsing the
\* text again yields the same Exact amount.
C12_ReparseSameAmountInRange ==
    (Reparsed /\ WrittenInFixedNotation(canary_prices[1])) =>
        /\ pc = "loop_appended"
        /\ Len(canary_prices) = 2
        /\ canary_prices[2] = canary_prices[1]

C12_Witness ==
    /\ Len(canary_prices) = 2
    /\ canary_prices[2] = canary_prices[1]
    /\ canary_prices[1].e > 0
    /\ canary_prices[1].m > 1000
    /\ price = Cell(<<"1", "5", "0", "0", ".", "5">>)

----------------------------------------------------------------------------
(* Properties of the clinician-service mapping (specification SpecMapping) *)

\* The set a raw services text stands for: none for the sentinel, else its
\* trimmed tokens, each once
Resolve(text) ==
    IF text = NoMatch THEN {}
    ELSE { services(text)[i] : i \in 1..Len(services(text)) }

\* The clinicians whose resolved set holds service s
Offering(s) == { i \in 1..Len(mapping_df) : s \in Resolve(mapping_df[i]) }

Listed == pc \in {"map_listed", "clinicians_listed"}

(* C13: the text "No Match" resolves to the empty set and any other text   *)
(* to the set of its tokens, so the count of a service is the number of    *)
(* clinicians naming it, a clinician who names it twice counting once.     *)
C13_CountedOncePerClinician ==
    pc = "map_counted" =>
        \A s \in DOMAIN service_counts :
            service_counts[s] = Cardinality(Offering(s))

(* C14: every token taken from a text other than the sentinel is trimmed   *)
(* and not empty, also with consecutive, leading or trailing commas.       *)
C14_TokensTrimmedAndNotEmpty ==
    Listed =>
        \A i \in 1..Len(service_list) :
            /\ service_list[i] # <<>>
            /\ Strip(service_list[i]) = service_list[i]

(* C15: the sentinel "No Match" is never stored or counted as a service,   *)
(* also when it is one token of a comma-separated list.                    *)
C15_SentinelNeverAToken ==
    Listed => \A i \in 1..Len(service_list) : service_list[i] # NoMatch

(* C16: every per-service clinician count is the number of clinicians      *)
(* whose raw text holds the service name as a substring, ignoring case.    *)
C16_CountBySubstringIgnoringCase ==
    pc \in {"services_app", "services_app2"} =>
        \A s \in Catalog :
            doctor_counts[s] =
                Cardinality({ i \in 1..Len(mapping_df) :
                                Contains(Lower(mapping_df[i]), Lower(s)) })

Hundred == Norm(100, 0)

(* C17: every catalog service has a coverage value, which is the number of *)
(* clinicians whose set holds it over the number of clinicians, times 100, *)
(* rounded to one decimal, and lies between 0.0 and 100.0.                 *)
C17_CoverageOfEveryCatalogService ==
    (pc = "map_covered" /\ mapping_df # <<>>) =>
        \A s \in Catalog :
            /\ s \in DOMAIN service_coverage
            /\ service_coverage[s] =
                   CoveragePct(Cardinality(Offering(s)), total_clinicians)
            /\ ~DecLess(Hundred, service_coverage[s])

C18Case ==
    /\ pc = "map_covered"
    /\ mapping_df = << <<"M", "R", "I", ",", " ", "C", "T", " ", "S", "c", "a", "n">>, NoMatch >>

(* C18: for the rows "MRI, CT Scan" and "No Match" and the catalog MRI,    *)
(* CT Scan, X-Ray the coverage of MRI is 50.0, that of X-Ray is 0.0, and   *)
(* the second clinician contributes no service.                            *)
C18_EndToEndCoverage ==
    C18Case =>
        /\ service_list = services(mapping_df[1])
        /\ <<"M", "R", "I">> \in DOMAIN service_coverage
        /\ service_coverage[<<"M", "R", "I">>] = Norm(500, 1)
        /\ <<"X", "-", "R", "a", "y">> \in DOMAIN service_coverage
        /\ service_coverage[<<"X", "-", "R", "a", "y">>] = Norm(0, 1)

----------------------------------------------------------------------------
(* Properties of the department classification (specification             *)
(* SpecClassify)                                                           *)

\* The rules in their fixed order: a department and its keywords
Rules ==
    << [dept |-> "Cardiology",
       words |-> { <<"c", "a", "r", "d", "i", "o">>,
                  <<"h", "e", "a", "r", "t">> }],
      [dept |-> "Orthopaedics",
       words |-> { <<"o", "r", "t", "h", "o">>,
                  <<"b", "o", "n", "e">>,
                  <<"j", "o", "i", "n", "t">>,
                  <<"k", "n", "e", "e">>,
                  <<"h", "i", "p">>,
                  <<"s", "p", "i", "n", "e">> }],
      [dept |-> "Gastroenterology",
       words |-> { <<"g", "a", "s", "t", "r", "o">>,
                  <<"h", "e", "p", "a", "t", "o">>,
                  <<"b", "o", "w", "e", "l">> }],
      [dept |-> "Breast Care",
       words |-> { <<"b", "r", "e", "a", "s", "t">>,
                  <<"o", "n", "c", "o", "p", "l", "a", "s", "t", "i", "c">> }],
      [dept |-> "Dermatology",
       words |-> { <<"d", "e", "r", "m", "a", "t">>,
                  <<"s", "k", "i", "n">> }],
      [dept |-> "ENT",
       words |-> { <<"e", "n", "t">>,
                  <<"e", "a", "r">>,
                  <<"n", "o", "s", "e">>,
                  <<"t", "h", "r", "o", "a", "t">> }],
      [dept |-> "Neurology/Neurosurgery",
       words |-> { <<"n", "e", "u", "r", "o">>,
                  <<"b", "r", "a", "i", "n">> }],
      [dept |-> "Women's Health",
       words |-> { <<"g", "y", "n", "a", "e">>,
                  <<"o", "b", "s", "t", "e", "t">>,
                  <<"w", "o", "m", "e", "n">> }],
      [dept |-> "Physiotherapy",
       words |-> { <<"p", "h", "y", "s", "i", "o">>,
                  <<"t", "h", "e", "r", "a", "p", "y">> }],
      [dept |-> "General Practice",
       words |-> { <<"g", "p">>,
                  <<"g", "e", "n", "e", "r", "a", "l", " ", "p", "r", "a", "c", "t", "i", "c", "e">>,
                  <<"p", "r", "a", "c", "t", "i", "t", "i", "o", "n", "e", "r">> }],
      [dept |-> "Urology/Renal",
       words |-> { <<"u", "r", "o", "l">>,
                  <<"k", "i", "d", "n", "e", "y">>,
                  <<"r", "e", "n", "a", "l">> }],
      [dept |-> "Plastic Surgery",
       words |-> { <<"p", "l", "a", "s", "t", "i", "c">>,
                  <<"a", "e", "s", "t", "h", "e", "t", "i", "c">>,
                  <<"c", "o", "s", "m", "e", "t", "i", "c">> }] >>

Matches(i, text) == \E w \in Rules[i].words : Contains(Lower(text), w)

Matching(text) == { i \in 1..Len(Rules) : Matches(i, text) }

\* The department of the first rule that matches, if one does
FirstMatch(text) ==
    IF Matching(text) = {} THEN "Other Specialties"
    ELSE Rules[CHOOSE i \in Matching(text) : \A j \in Matching(text) : i <= j].dept

CardiologyConsultant == <<"C", "a", "r", "d", "i", "o", "l", "o", "g", "y", " ", "C", "o", "n", "s", "u", "l", "t", "a", "n", "t">>
CardiologyDepartment == <<"C", "a", "r", "d", "i", "o", "l", "o", "g", "y", " ", "D", "e", "p", "a", "r", "t", "m", "e", "n", "t">>
ent == <<"e", "n", "t">>

(* C19 as stated: the department is that of the first matching rule in the *)
(* fixed order, and "Cardiology Consultant", which also contains the ENT   *)
(* keyword "ent", is Cardiology.                                           *)
C19_FirstRuleWinsConsultantExample ==
    pc = "dept_done" =>
        /\ department = FirstMatch(specialization)
        /\ specialization = CardiologyConsultant =>
               /\ Contains(Lower(specialization), ent)
               /\ department = "Cardiology"

(* C19: the department is that of the first matching rule in the fixed     *)
(* order; "Cardiology Consultant" is Cardiology, and so is "Cardiology     *)
(* Department", which also contains the ENT keyword "ent".                 *)
C19_FirstRuleWins ==
    pc = "dept_done" =>
        /\ department = FirstMatch(specialization)
        /\ specialization = CardiologyConsultant => department = "Cardiology"
        /\ specialization = CardiologyDepartment =>
               /\ Contains(Lower(specialization), ent)
               /\ department = "Cardiology"

C19_Witness ==
    /\ pc = "dept_done"
    /\ specialization = CardiologyDepartment
    /\ {1, 6} \subseteq Matching(specialization)
    /\ department = "Cardiology"

Departments == { Rules[i].dept : i \in 1..Len(Rules) } \cup {"Other Specialties"}

UpperChar(c) ==
    CASE c = "a" -> "A" [] c = "b" -> "B" [] c = "c" -> "C" [] c = "d" -> "D"
      [] c = "e" -> "E" [] c = "f" -> "F" [] c = "g" -> "G" [] c = "h" -> "H"
      [] c = "i" -> "I" [] c = "j" -> "J" [] c = "k" -> "K" [] c = "l" -> "L"
      [] c = "m" -> "M" [] c = "n" -> "N" [] c = "o" -> "O" [] c = "p" -> "P"
      [] c = "q" -> "Q" [] c = "r" -> "R" [] c = "s" -> "S" [] c = "t" -> "T"
      [] c = "u" -> "U" [] c = "v" -> "V" [] c = "w" -> "W" [] c = "x" -> "X"
      [] c = "y" -> "Y" [] c = "z" -> "Z"
      [] OTHER -> c

Upper(s) == [i \in 1..Len(s) |-> UpperChar(s[i])]

(* C20: every specialization gets exactly one of the thirteen department   *)
(* labels, the label does not depend on letter case, and a text holding no *)
(* rule keyword gets "Other Specialties".                                  *)
C20_TotalAndCaseInsensitive ==
    pc = "dept_done" =>
        /\ department \in Departments
        /\ Cardinality(Departments) = 13
        /\ department = categorize_specialization(Upper(specialization))
        /\ department = categorize_specialization(Lower(specialization))
        /\ Matching(specialization) = {} => department = "Other Specialties"

C20_Witness ==
    /\ pc = "dept_done"
    /\ Upper(specialization) # specialization
    /\ Lower(specialization) # specialization
    /\ department = "General Practice"

C20_WitnessOther ==
    /\ pc = "dept_done"
    /\ Matching(specialization) = {}
    /\ department = "Other Specialties"

----------------------------------------------------------------------------
(* Properties of loading and of the department rollup (specification       *)
(* SpecLoad)                                                               *)

AnalyticsRendered == pc = "rendered" /\ view = "Analytics"

\* The clinicians whose specialization classifies as department d
InDepartment(d) ==
    { i \in 1..Len(clinicians_df) : FirstMatch(clinicians_df[i].Specialization) = d }

RECURSIVE SumCounts(_)
SumCounts(counts) ==
    IF DOMAIN counts = {} THEN 0
    ELSE LET d == CHOOSE d \in DOMAIN counts : TRUE
         IN  counts[d] + SumCounts([e \in DOMAIN counts \ {d} |-> counts[e]])

(* C21: the rollup counts every clinician in exactly one department, that  *)
(* of its classification; the counts sum to the number of clinicians and   *)
(* the percentage of a department is its count over that number times 100. *)
C21_RollupPartitionsClinicians ==
    AnalyticsRendered =>
        /\ \A i \in 1..Len(clinicians_df) :
               FirstMatch(clinicians_df[i].Specialization) \in DOMAIN dept_counts
        /\ \A d \in DOMAIN dept_counts :
               /\ dept_counts[d] = Cardinality(InDepartment(d))
               /\ dept_summary[d] = Percentage(Cardinality(InDepartment(d)),
                                               Len(clinicians_df))
        /\ DOMAIN dept_summary = DOMAIN dept_counts
        /\ SumCounts(dept_counts) = Len(clinicians_df)

C21_Witness ==
    /\ AnalyticsRendered
    /\ Len(clinicians_df) = 2
    /\ \E d \in DOMAIN dept_counts : dept_counts[d] = 2

----------------------------------------------------------------------------
(* Properties of the per-category price files (specification               *)
(* SpecPricingFiles)                                                       *)

CsvLoaded == pc \in {"tabs", "tabs_done", "aborted"}

LoadedCategories == { pricing_data[i].category : i \in 1..Len(pricing_data) }

(* C22: when a price file is missing, no price table that was loaded is    *)
(* handed to the tabs: they see every table or none.                       *)
C22_NoPartialModelExposed ==
    (CsvLoaded /\ \E c \in CategorySet : ~csv_files[c].exists) =>
        pricing_data = <<>>

\* The encodings of the list that decode the file of the k-th category
Decoding(k) ==
    { i \in 1..Len(Encodings) :
        Decodes(Encodings[i], csv_files[Categories[k]].bytes) }

(* C25: for each price file that is there, the encodings are tried in the  *)
(* order utf-8, latin-1, cp1252, iso-8859-1 up to the first that decodes,  *)
(* whose result is the one used, none is tried after it, and the file is   *)
(* reported undecodable only when every one failed.                        *)
C25_FirstDecodingEncodingUsed ==
    \A k \in 1..Len(attempts) :
        csv_files[Categories[k]].exists =>
            /\ Len(attempts[k]) <= Len(Encodings)
            /\ \A i \in 1..Len(attempts[k]) : attempts[k][i] = Encodings[i]
            /\ Decoding(k) # {} =>
                   /\ Len(attempts[k]) \in Decoding(k)
                   /\ \A i \in Decoding(k) : Len(attempts[k]) <= i
                   /\ \A j \in 1..Len(pricing_data) :
                          pricing_data[j].category = Categories[k] =>
                              pricing_data[j].df.encoding = Encodings[Len(attempts[k])]
            /\ \A j \in 1..Len(shown) :
                   (shown[j].sources = {Categories[k]} /\ shown[j].what = "undecodable")
                       => Decoding(k) = {}

C25_Witness ==
    \E k \in 1..Len(attempts) :
        /\ attempts[k] = << "utf-8", "latin-1" >>
        /\ \E j \in 1..Len(pricing_data) :
               /\ pricing_data[j].category = Categories[k]
               /\ pricing_data[j].df.encoding = "latin-1"

\* The lines of a file after the header line and the first row
DataLines(file) == 3..Len(file.fields)

(* C26: in a table of three columns a line with another number of fields   *)
(* is skipped, every other line is loaded, and the table is loaded.        *)
C26_MalformedRowSkipped ==
    CsvLoaded =>
        \A c \in CategorySet :
            (csv_files[c].exists /\ csv_files[c].fields[1] = Columns) =>
                /\ c \in LoadedCategories
                /\ \A j \in 1..Len(pricing_data) :
                       pricing_data[j].category = c =>
                           { pricing_data[j].df.rows[r].line :
                               r \in 1..Len(pricing_data[j].df.rows) } =
                           { k \in DataLines(csv_files[c]) :
                               csv_files[c].fields[k] = Columns }

(* C28: the category looked up for the i-th tab exists and is the one the  *)
(* label of that tab names, whatever files failed to load.                 *)
C28_TabShowsItsCategory ==
    /\ \A i \in 1..Len(tab_views) :
           /\ tab_views[i].tab = TabLabels[i]
           /\ tab_views[i].category = Categories[i]
    /\ \A j \in 1..Len(shown) : shown[j].what # "IndexError"
    /\ pc = "tabs_done" => Len(tab_views) = Len(TabLabels)

----------------------------------------------------------------------------
(* Properties of load_data() and of the pages after it (specification      *)
(* SpecLoad)                                                               *)

Failing == { f \in DOMAIN disk : disk[f].status # "ok" }

LoadEnded == pc # "load"

C24_OneErrorListsEveryFailingSource ==
    (LoadEnded /\ Failing # {}) =>
        /\ Len(shown) = 1
        /\ shown[1].sources = Failing
        /\ \A v \in TableNames : bound[v] # "table"

(* C27: once the tables are loaded no step changes a row or a column of    *)
(* the clinician, catalog, mapping or price table.                         *)
C27_LoadedTablesReadOnly ==
    [][bound["clinicians_df"] = "table" =>
           UNCHANGED <<clinicians_df, services_df, mapping_df, prices_df>>]_vars

----------------------------------------------------------------------------
(* Properties of the search term in the scan (specification Spec) *)

NamedRow(i) == ~BlankCell(prices_df[i][1])

\* The category the scan gives row i when nothing is searched for
UnsearchedCategory(i) ==
    IF HeadersAbove(i) = {} THEN None ELSE prices_df[LastHeaderAbove(i)][1]

(* C30: a search term hides exactly the data rows whose name does not      *)
(* contain it, ignoring case; it hides no header row, and every row shown  *)
(* has the category it has without the search term.                        *)
C30_SearchOnlyHidesDataRows ==
    pc = "done" =>
        /\ \A i \in 1..Len(prices_df) :
               (NamedRow(i) /\ EmptyPrices(i) = 2) => HeaderAt(i)
        /\ \A i \in 1..Len(prices_df) :
               (NamedRow(i) /\ EmptyPrices(i) < 2) =>
                   (~EntryAt(i) <=>
                       /\ search_price # <<>>
                       /\ ~Contains(Lower(prices_df[i][1].text), Lower(search_price)))
        /\ \A k \in Entries : page[k].category = UnsearchedCategory(page[k].row)

C30_Witness ==
    /\ pc = "done"
    /\ search_price # <<>>
    /\ \E h, i, j \in 1..Len(prices_df) :
           /\ h < i /\ h < j
           /\ HeaderAt(h)
           /\ NamedRow(i) /\ EmptyPrices(i) < 2 /\ ~EntryAt(i)
           /\ EntryAt(j)
           /\ \A k \in Entries : page[k].category = prices_df[h][1]

----------------------------------------------------------------------------
(* Properties of the single-category view (specification SpecSingle) *)

\* The data rows the all-categories scan gives the category named text
RowsOfCategory(text) ==
    { i \in 1..Len(prices_df) :
        /\ NamedRow(i) /\ EmptyPrices(i) < 2
        /\ HeadersAbove(i) # {}
        /\ prices_df[LastHeaderAbove(i)][1].text = text }

\* The selected value is the name of a header row
SelectedIsHeader ==
    \E i \in 1..Len(prices_df) :
        /\ NamedRow(i) /\ EmptyPrices(i) = 2
        /\ prices_df[i][1].text = selected_category

(* C29: with no search term the single-category view shows exactly the     *)
(* data rows the all-categories scan gives the selected category, and      *)
(* nothing when the selected value is not the name of a header row.        *)
C29_SingleViewShowsCategoryRows ==
    (pc = "single_done" /\ search_price = <<>>) =>
        { page[k].row : k \in Entries } =
            IF SelectedIsHeader THEN RowsOfCategory(selected_category) ELSE {}

====
